---- MODULE Spec2Model ----
(***************************************************************************)
(* A model of the IAR build extension's file synchronisation:              *)
(*   - BackupUtils.doWithBackupCheck (src/src/utils/utils.ts), the guard   *)
(*     that removes backup files a task leaves in the project directory;   *)
(*   - the file-watcher handlers of setupFileWatchers                      *)
(*     (src/src/extension/main.ts) and the selection models they feed.     *)
(* Several specifications share the module, each driving one part of the   *)
(* program; the variables of the parts a specification does not drive keep *)
(* their initial values.                                                   *)
(***************************************************************************)
EXTENDS Integers, Sequences, FiniteSets, TLC

(***************************************************************************)
(* Text.  A file name is a sequence of characters, each a one-character    *)
(* string; characters outside ASCII are written as their code point.       *)
(***************************************************************************)
Chars(str) == [i \in 1..Len(str) |-> SubSeq(str, i, i)]

\* The characters of "no bakkuappu" (U+306E U+30D0 U+30C3 U+30AF U+30A2 U+30C3 U+30D7).
JpnBackupWord == <<"U+306E", "U+30D0", "U+30C3", "U+30AF", "U+30A2", "U+30C3", "U+30D7">>

\* \s of a JavaScript regular expression (the members that can be written here).
WhiteSpace == {" ", "\t", "\n", "\r", "\f", "U+00A0", "U+3000", "U+FEFF"}

\* \d of a JavaScript regular expression.
Digits == {"0", "1", "2", "3", "4", "5", "6", "7", "8", "9"}

\* The characters RegexUtils.escape puts a backslash before.
RegexSpecial == {".", "*", "+", "?", "^", "$", "{", "}", "(", ")", "|", "[", "]", "\\"}

RECURSIVE escape(_)
escape(str) ==
    IF str = <<>> THEN <<>>
    ELSE (IF Head(str) \in RegexSpecial THEN <<"\\", Head(str)>> ELSE <<Head(str)>>)
         \o escape(Tail(str))

\* What a regular expression source made of plain and backslash-escaped
\* characters matches: the characters themselves.
RECURSIVE RegexLiteral(_)
RegexLiteral(src) ==
    IF src = <<>> THEN <<>>
    ELSE IF Head(src) = "\\" /\ Len(src) >= 2
         THEN <<src[2]>> \o RegexLiteral(Tail(Tail(src)))
         ELSE <<Head(src)>> \o RegexLiteral(Tail(src))

(***************************************************************************)
(* Regular expression matching by position sets: P is the set of           *)
(* positions (index of the next character to read) a prefix of the         *)
(* expression can end at; each operator advances P over one more piece.    *)
(***************************************************************************)
AfterLiteral(str, P, lit) ==
    {p + Len(lit) : p \in {q \in P : /\ q + Len(lit) - 1 <= Len(str)
                                     /\ SubSeq(str, q, q + Len(lit) - 1) = lit}}

AfterPlus(str, P, class) ==
    {q \in 2..(Len(str) + 1) : \E p \in P : p < q /\ \A k \in p..(q - 1) : str[k] \in class}

AfterStar(str, P, class) == P \cup AfterPlus(str, P, class)

AfterNumber(str, P) ==
    AfterLiteral(str, AfterPlus(str, AfterLiteral(str, P, <<"(">>), Digits), <<")">>)

AnyPosition(str) == 1..(Len(str) + 1)

\* Path.basename(path, ext) and Path.dirname(path) for "/"-separated paths.
LastSlash(path) ==
    LET S == {i \in 1..Len(path) : path[i] = "/"} IN
    IF S = {} THEN 0 ELSE CHOOSE i \in S : \A j \in S : j <= i

basename(path) == SubSeq(path, LastSlash(path) + 1, Len(path))

basenameNoExt(path, ext) ==
    LET b == basename(path) IN
    IF Len(b) > Len(ext) /\ SubSeq(b, Len(b) - Len(ext) + 1, Len(b)) = ext
    THEN SubSeq(b, 1, Len(b) - Len(ext))
    ELSE b

dirname(path) == SubSeq(path, 1, LastSlash(path) - 1)

\* projectNameRegex, as the regular expression engine reads it.
projectNameRegex(project) == RegexLiteral(escape(basenameNoExt(project, Chars(".ewp"))))

\* backupRegexEng: Backup\s+(\(\d+\))?\s*of N\.ew, not anchored.
backupRegexEng(file, project) ==
    LET p1 == AfterLiteral(file, AnyPosition(file), Chars("Backup"))
        p2 == AfterPlus(file, p1, WhiteSpace)
        p3 == p2 \cup AfterNumber(file, p2)
        p4 == AfterStar(file, p3, WhiteSpace)
        p5 == AfterLiteral(file, p4, Chars("of ") \o projectNameRegex(project) \o Chars(".ew"))
    IN p5 # {}

\* backupRegexJpn: N\s+<JpnBackupWord>(\s+\(\d+\))?\.ew, not anchored.
backupRegexJpn(file, project) ==
    LET p1 == AfterLiteral(file, AnyPosition(file), projectNameRegex(project))
        p2 == AfterPlus(file, p1, WhiteSpace)
        p3 == AfterLiteral(file, p2, JpnBackupWord)
        p4 == p3 \cup AfterNumber(file, AfterPlus(file, p3, WhiteSpace))
        p5 == AfterLiteral(file, p4, Chars(".ew"))
    IN p5 # {}

\* The filter of both directory listings.
MatchesBackup(file, project) == backupRegexEng(file, project) \/ backupRegexJpn(file, project)

(***************************************************************************)
(* Part 1: BackupUtils.doWithBackupCheck.                                  *)
(***************************************************************************)
\* The project the guarded tasks load, and the files its directory can hold.
project == Chars("/ws/Foo.ewp")

ProjectFile   == Chars("Foo.ewp")
Unrelated     == Chars("Unrelated.ewp")
BackupEwp     == Chars("Backup of Foo.ewp")
BackupEwt     == Chars("Backup of Foo.ewt")
Backup2Ewp    == Chars("Backup (2) of Foo.ewp")
JpnBackupEwp  == Chars("Foo ") \o JpnBackupWord \o Chars(".ewp")
OtherBackup   == Chars("Backup of Bar.ewp")

\* Files that can be in the directory before any guarded task runs.
PreExisting == {Unrelated, BackupEwp}
\* Files a running task can write.
TaskWrites == {BackupEwp, BackupEwt, Backup2Ewp, JpnBackupEwp, OtherBackup}
\* Files a task can write when two calls are interleaved.
TaskWrites2 == {BackupEwp, Backup2Ewp}
Files == {ProjectFile} \cup PreExisting \cup TaskWrites

\* The names the two patterns of the guard match, for this project.
BackupShaped == {f \in Files : MatchesBackup(f, project)}

\* Two calls of doWithBackupCheck on the same project path.
Runs == {1, 2}
\* How many files one task writes, and how many files disappear under a task.
MaxTaskWrites == 2
MaxVanished == 1

TaskResults == {[kind |-> "fulfilled", value |-> "v1"],
                [kind |-> "rejected", value |-> "e1"]}
Pending == [kind |-> "pending", value |-> "-"]
NotInvoked == [kind |-> "not_invoked", value |-> "-"]
ReaddirError == [kind |-> "rejected", value |-> "readdir"]
CleanupError == [kind |-> "rejected", value |-> "cleanup"]

VARIABLES
    dir,                  \* the names in the project directory
    pc,                   \* where each call of doWithBackupCheck stands
    originalBackupFiles,  \* the listing taken before the task
    backupFilesAfterExit, \* the listing taken in the finally callback
    pendingRm,            \* the FsPromises.rm calls not yet settled
    taskPromise,          \* the promise task() returned
    returned,             \* the promise doWithBackupCheck returned
    cleanup,              \* the promise of the finally callback
    dirBefore,            \* history: the directory when the first listing was taken
    created,              \* history: the files each task wrote
    deleted,              \* history: the files each call removed
    rmFailed,             \* history: the rejected removals, and whether the file was there
    vanished,             \* history: how many files disappeared under a task
    dir0                  \* history: the directory before any call

guardVars == <<dir, pc, originalBackupFiles, backupFilesAfterExit, pendingRm, taskPromise,
               returned, cleanup, dirBefore, created, deleted, rmFailed, vanished, dir0>>

\* fs.readdir(projectDir) filtered by the two patterns.
listBackups(d) == {file \in d : MatchesBackup(file, project)}

\* The test that guards the removal.
listingsDiffer(original, afterExit) == Cardinality(original) # Cardinality(afterExit)

\* newBackupFiles without the comparison with the first listing.
newBackupFiles_NoDiff(original, afterExit) == afterExit

\* newBackupFiles.
newBackupFiles(original, afterExit) == {backupFile \in afterExit : backupFile \notin original}

\* The caller's promise had the code returned taskPromise.finally(...).
returnedPromise_Chained(task, fin) ==
    IF fin = "running" THEN Pending
    ELSE IF fin = "rejected" THEN CleanupError
    ELSE task

\* What the caller's promise is, given the task's promise and the finally callback's.
returnedPromise(task, fin) == task

InitGuard ==
    /\ dir \in {{ProjectFile} \cup S : S \in SUBSET PreExisting}
    /\ dir0 = dir
    /\ pc = [r \in Runs |-> "idle"]
    /\ originalBackupFiles = [r \in Runs |-> {}]
    /\ backupFilesAfterExit = [r \in Runs |-> {}]
    /\ pendingRm = [r \in Runs |-> {}]
    /\ taskPromise = [r \in Runs |-> NotInvoked]
    /\ returned = [r \in Runs |-> Pending]
    /\ cleanup = [r \in Runs |-> "not_started"]
    /\ dirBefore = [r \in Runs |-> {}]
    /\ created = [r \in Runs |-> {}]
    /\ deleted = [r \in Runs |-> {}]
    /\ rmFailed = [r \in Runs |-> {}]
    /\ vanished = 0

\* No call of doWithBackupCheck is made.
InitGuardIdle == InitGuard /\ dir = {ProjectFile}

\* Lines 88-98: the first listing succeeds and the task is started.
Begin(r) ==
    /\ pc[r] = "idle"
    /\ originalBackupFiles' = [originalBackupFiles EXCEPT ![r] = listBackups(dir)]
    /\ dirBefore' = [dirBefore EXCEPT ![r] = dir]
    /\ taskPromise' = [taskPromise EXCEPT ![r] = Pending]
    /\ pc' = [pc EXCEPT ![r] = "task"]
    /\ UNCHANGED <<dir, backupFilesAfterExit, pendingRm, returned, cleanup, created,
                   deleted, rmFailed, vanished, dir0>>

\* Line 95, had the rejection of readdir been caught: the task is started with
\* no first listing.
onReaddirRejected_Caught(error) ==
    [returned |-> Pending, taskPromise |-> Pending, pc |-> "task"]

\* Line 95: the await of a rejected readdir throws out of the async function,
\* whose promise is rejected with the error; line 98 is not reached.
onReaddirRejected(error) ==
    [returned |-> error, taskPromise |-> NotInvoked, pc |-> "done"]

\* Line 95: the first listing is rejected; the await throws, the task is never called.
BeginFails(r) ==
    /\ pc[r] = "idle"
    /\ LET end == onReaddirRejected(ReaddirError)
       IN /\ returned' = [returned EXCEPT ![r] = end.returned]
          /\ taskPromise' = [taskPromise EXCEPT ![r] = end.taskPromise]
          /\ pc' = [pc EXCEPT ![r] = end.pc]
    /\ UNCHANGED <<dir, originalBackupFiles, backupFilesAfterExit, pendingRm,
                   cleanup, dirBefore, created, deleted, rmFailed, vanished, dir0>>

\* The running task writes a file into the project directory.
TaskWritesFile(r, f) ==
    /\ pc[r] = "task"
    /\ f \in TaskWrites \ dir
    /\ Cardinality(created[r]) < MaxTaskWrites
    /\ dir' = dir \cup {f}
    /\ created' = [created EXCEPT ![r] = @ \cup {f}]
    /\ UNCHANGED <<pc, originalBackupFiles, backupFilesAfterExit, pendingRm, taskPromise,
                   returned, cleanup, dirBefore, deleted, rmFailed, vanished, dir0>>

\* A backup file disappears while a task runs (the tool rotates its backups).
FileVanishes(f) ==
    /\ \E r \in Runs : pc[r] = "task"
    /\ f \in dir \cap BackupShaped
    /\ vanished < MaxVanished
    /\ dir' = dir \ {f}
    /\ vanished' = vanished + 1
    /\ UNCHANGED <<pc, originalBackupFiles, backupFilesAfterExit, pendingRm, taskPromise,
                   returned, cleanup, dirBefore, created, deleted, rmFailed, dir0>>

\* Lines 98-108, up to the await in the finally callback: the task settles, the
\* callback starts its listing, and the caller's promise follows the task's.
TaskSettles(r, result) ==
    /\ pc[r] = "task"
    /\ taskPromise' = [taskPromise EXCEPT ![r] = result]
    /\ cleanup' = [cleanup EXCEPT ![r] = "running"]
    /\ returned' = [returned EXCEPT ![r] = returnedPromise(result, "running")]
    /\ pc' = [pc EXCEPT ![r] = "resnapshot"]
    /\ UNCHANGED <<dir, originalBackupFiles, backupFilesAfterExit, pendingRm, dirBefore,
                   created, deleted, rmFailed, vanished, dir0>>

\* What the caller's promise becomes when the finally callback ends with fin.
Follow(r, fin) ==
    IF returned[r] = Pending THEN returnedPromise(taskPromise[r], fin) ELSE returned[r]

\* Lines 100-105: the second listing arrives.
Resnapshot(r) ==
    /\ pc[r] = "resnapshot"
    /\ LET afterExit == listBackups(dir)
           toRemove == IF listingsDiffer(originalBackupFiles[r], afterExit)
                       THEN newBackupFiles(originalBackupFiles[r], afterExit)
                       ELSE {}
       IN /\ backupFilesAfterExit' = [backupFilesAfterExit EXCEPT ![r] = afterExit]
          /\ pendingRm' = [pendingRm EXCEPT ![r] = toRemove]
          /\ IF toRemove = {}
             THEN /\ pc' = [pc EXCEPT ![r] = "done"]
                  /\ cleanup' = [cleanup EXCEPT ![r] = "fulfilled"]
                  /\ returned' = [returned EXCEPT ![r] = Follow(r, "fulfilled")]
             ELSE /\ pc' = [pc EXCEPT ![r] = "remove"]
                  /\ UNCHANGED <<cleanup, returned>>
    /\ UNCHANGED <<dir, originalBackupFiles, taskPromise, dirBefore, created, deleted,
                   rmFailed, vanished, dir0>>

\* Line 100: the second listing is rejected, and with it the finally callback.
ResnapshotFails(r) ==
    /\ pc[r] = "resnapshot"
    /\ cleanup' = [cleanup EXCEPT ![r] = "rejected"]
    /\ returned' = [returned EXCEPT ![r] = Follow(r, "rejected")]
    /\ pc' = [pc EXCEPT ![r] = "done"]
    /\ UNCHANGED <<dir, originalBackupFiles, backupFilesAfterExit, pendingRm, taskPromise,
                   dirBefore, created, deleted, rmFailed, vanished, dir0>>

\* Line 104: Promise.allSettled is fulfilled once every rm has settled.
AllSettled(r, left) ==
    IF left = {}
    THEN /\ pc' = [pc EXCEPT ![r] = "done"]
         /\ cleanup' = [cleanup EXCEPT ![r] = "fulfilled"]
         /\ returned' = [returned EXCEPT ![r] = Follow(r, "fulfilled")]
    ELSE UNCHANGED <<pc, cleanup, returned>>

\* Line 104: one FsPromises.rm removes its file.
RmSucceeds(r, f) ==
    /\ pc[r] = "remove"
    /\ f \in pendingRm[r] \cap dir
    /\ dir' = dir \ {f}
    /\ deleted' = [deleted EXCEPT ![r] = @ \cup {f}]
    /\ pendingRm' = [pendingRm EXCEPT ![r] = @ \ {f}]
    /\ AllSettled(r, pendingRm[r] \ {f})
    /\ UNCHANGED <<originalBackupFiles, backupFilesAfterExit, taskPromise, dirBefore,
                   created, rmFailed, vanished, dir0>>

\* Line 104: one FsPromises.rm is rejected (the file is gone, or cannot be removed).
RmFails(r, f) ==
    /\ pc[r] = "remove"
    /\ f \in pendingRm[r]
    /\ rmFailed' = [rmFailed EXCEPT ![r] = @ \cup {[file |-> f, present |-> f \in dir]}]
    /\ pendingRm' = [pendingRm EXCEPT ![r] = @ \ {f}]
    /\ AllSettled(r, pendingRm[r] \ {f})
    /\ UNCHANGED <<dir, originalBackupFiles, backupFilesAfterExit, taskPromise, dirBefore,
                   created, deleted, vanished, dir0>>

\* One step of the calls in R, their tasks writing files of W.
GuardStep(R, W) ==
    \/ \E r \in R : Begin(r)
    \/ \E r \in R : BeginFails(r)
    \/ \E r \in R, f \in W : TaskWritesFile(r, f)
    \/ \E f \in Files : FileVanishes(f)
    \/ \E r \in R, result \in TaskResults : TaskSettles(r, result)
    \/ \E r \in R : Resnapshot(r)
    \/ \E r \in R : ResnapshotFails(r)
    \/ \E r \in R, f \in Files : RmSucceeds(r, f)
    \/ \E r \in R, f \in Files : RmFails(r, f)



(***************************************************************************)
(* Part 2: the file watchers of setupFileWatchers and the selection models. *)
(* The watched files, what is in them, and the entities parsed from them.   *)
(***************************************************************************)
\* Workspace files (**/*.eww) and project files (**/*.ewp) of the opened folder.
W1 == "/ws/W1.eww"
W2 == "/ws/W2.eww"
PA == "/ws/a.ewp"
PB == "/ws/B.ewp"
PA2 == "/ws/sub/a.ewp"
PBackup == "/ws/Backup of a.ewp"

EwwPaths == {W1, W2}
EwpPaths == {PA, PB, PA2, PBackup}

\* What a file holds: nothing (no such file), text no parser accepts, or one
\* of two well-formed versions.
Absent == 0
Corrupt == 1
Version1 == 2
Version2 == 3
Contents == {Absent, Corrupt, Version1, Version2}

\* The project paths a workspace file lists, by version.
WsProjects(path, content) ==
    IF path = W1 THEN (IF content = Version1 THEN {PA} ELSE {PA, PB})
    ELSE {PB}

\* The configurations a project file declares, by version.
ProjectConfigs(content) ==
    IF content = Version1 THEN <<"Debug", "Release">> ELSE <<"Debug">>

\* No entity: what find() and selected give when there is none.
NoRef == 9
Undefined == [path |-> "", content |-> Absent, ref |-> NoRef]

\* The entity's name: the file name without its extension.
NameOf(path, ext) == basenameNoExt(Chars(path), Chars(ext))

(***************************************************************************)
(* String.prototype.localeCompare for names of ASCII letters, digits and   *)
(* spaces: first by the letters regardless of case, a shorter name before  *)
(* its extensions; between names that differ in case only, lower case      *)
(* first.                                                                  *)
(***************************************************************************)
LowerCase == Chars("abcdefghijklmnopqrstuvwxyz")
UpperCase == Chars("ABCDEFGHIJKLMNOPQRSTUVWXYZ")
PrimaryOrder == Chars(" 0123456789") \o LowerCase

IndexIn(seq, c) == CHOOSE i \in 1..Len(seq) : seq[i] = c
IsUpper(c) == \E i \in 1..Len(UpperCase) : UpperCase[i] = c
ToLower(c) == IF IsUpper(c) THEN LowerCase[IndexIn(UpperCase, c)] ELSE c
PrimaryKey(name) == [i \in 1..Len(name) |-> IndexIn(PrimaryOrder, ToLower(name[i]))]
TertiaryKey(name) == [i \in 1..Len(name) |-> IF IsUpper(name[i]) THEN 1 ELSE 0]

\* Lexicographic comparison of two sequences of numbers: -1, 0 or 1.
RECURSIVE CompareKeys(_, _)
CompareKeys(k1, k2) ==
    IF k1 = <<>> /\ k2 = <<>> THEN 0
    ELSE IF k1 = <<>> THEN -1
    ELSE IF k2 = <<>> THEN 1
    ELSE IF Head(k1) < Head(k2) THEN -1
    ELSE IF Head(k1) > Head(k2) THEN 1
    ELSE CompareKeys(Tail(k1), Tail(k2))

localeCompare(n1, n2) ==
    LET primary == CompareKeys(PrimaryKey(n1), PrimaryKey(n2)) IN
    IF primary # 0 THEN primary ELSE CompareKeys(TertiaryKey(n1), TertiaryKey(n2))

\* The name of each watched file's entity.
names == [f \in EwwPaths |-> NameOf(f, ".eww")] @@ [f \in EwpPaths |-> NameOf(f, ".ewp")]

\* a.name.localeCompare(b.name), for the entities of every two watched files.
nameOrder == [a \in DOMAIN names |-> [b \in DOMAIN names |-> localeCompare(names[a], names[b])]]

\* The comparison of two names code unit by code unit (case-sensitive: every
\* upper case letter before every lower case one), as the operator < compares
\* strings.
CodeUnitOrder == Chars(" ()0123456789") \o UpperCase \o LowerCase
CodeUnitKey(name) == [i \in 1..Len(name) |-> IndexIn(CodeUnitOrder, name[i])]
codeUnitCompare(n1, n2) == CompareKeys(CodeUnitKey(n1), CodeUnitKey(n2))
codeUnitOrder ==
    [a \in DOMAIN names |-> [b \in DOMAIN names |-> codeUnitCompare(names[a], names[b])]]

\* Array.prototype.sort with (a, b) => a.name.localeCompare(b.name): a stable sort.
RECURSIVE InsertByName(_, _)
InsertByName(sorted, e) ==
    IF sorted = <<>> THEN <<e>>
    ELSE IF nameOrder[e.path][Head(sorted).path] < 0
         THEN <<e>> \o sorted
         ELSE <<Head(sorted)>> \o InsertByName(Tail(sorted), e)

\* The list as the forEach filled it, not sorted.
sortByName_AsParsed(list) == list

RECURSIVE sortByName(_)
sortByName(list) ==
    IF list = <<>> THEN <<>>
    ELSE InsertByName(sortByName(SubSeq(list, 1, Len(list) - 1)), list[Len(list)])

(***************************************************************************)
(* BackupUtils.isBackupFile and Project.isIgnoredFile.                     *)
(***************************************************************************)
\* What "." does not match.
LineTerminators == {"\n", "\r", "U+2028", "U+2029"}

AfterAny(str, P) ==
    {q \in 1..(Len(str) + 1) :
        \E p \in P : p <= q /\ \A k \in p..(q - 1) : str[k] \notin LineTerminators}

AtEnd(str, P) == (Len(str) + 1) \in P

\* ^Backup\s+(\(\d+\)\s+)?of.*\.ewp$
isBackupFileEng(name) ==
    LET p1 == AfterLiteral(name, {1}, Chars("Backup"))
        p2 == AfterPlus(name, p1, WhiteSpace)
        p3 == p2 \cup AfterPlus(name, AfterNumber(name, p2), WhiteSpace)
        p4 == AfterLiteral(name, p3, Chars("of"))
        p5 == AfterAny(name, p4)
    IN AtEnd(name, AfterLiteral(name, p5, Chars(".ewp")))

\* ^.*\s+<JpnBackupWord>(\s+\(\d+\))?\.ewp$
isBackupFileJpn(name) ==
    LET p1 == AfterAny(name, {1})
        p2 == AfterPlus(name, p1, WhiteSpace)
        p3 == AfterLiteral(name, p2, JpnBackupWord)
        p4 == p3 \cup AfterNumber(name, AfterPlus(name, p3, WhiteSpace))
    IN AtEnd(name, AfterLiteral(name, p4, Chars(".ewp")))

\* The two tests on the path as given, not on its basename.
isBackupFile_WholePath(path) == isBackupFileEng(path) \/ isBackupFileJpn(path)

isBackupFile(path) == isBackupFileEng(basename(path)) \/ isBackupFileJpn(basename(path))

\* Project.isIgnoredFile: excluded by the projects-to-exclude setting, or a backup.
\* The watched project files that isBackupFile takes for backups.
backupProjectFiles == {f \in EwpPaths : isBackupFile(Chars(f))}

isIgnoredFile(file, exclude) == file \in exclude \/ file \in backupProjectFiles

(***************************************************************************)
(* The selection models (ListInputModel) and ExtensionState.               *)
(***************************************************************************)
\* The greatest index a message of the view carries.
MaxIndex == 3

\* selectedIndex when nothing is selected; otherwise an index from 0.
NoSelection == -1

PathsOf(list) == [i \in 1..Len(list) |-> list[i].path]

\* The index (from 0) of the first occurrence of key, or NoSelection.
IndexOfKey(keys, key) ==
    LET S == {i \in 1..Len(keys) : keys[i] = key} IN
    IF S = {} THEN NoSelection ELSE (CHOOSE i \in S : \A j \in S : i <= j) - 1

\* ListInputModel.selected: the entity at selectedIndex, undefined when there is
\* none.
selected(list, sel) == IF sel < 0 \/ sel >= Len(list) THEN Undefined ELSE list[sel + 1]

KeyAt(keys, sel) == IF sel < 0 \/ sel >= Len(keys) THEN "" ELSE keys[sel + 1]

\* The selection a model keeps at its old index, whatever is there now.
setSelection_ByIndex(oldKeys, sel, newKeys) ==
    IF sel = NoSelection \/ sel >= Len(newKeys) THEN NoSelection ELSE sel

\* ListInputModel.set: the selection follows the entity with the same key.
setSelection(oldKeys, sel, newKeys) ==
    IF sel < 0 \/ sel >= Len(oldKeys) THEN NoSelection
    ELSE IndexOfKey(newKeys, oldKeys[sel + 1])

\* select(index) keeping the index as the message carries it.
selectIndex_Unchecked(len, index) == index

\* ListInputModel.select: an index out of range is clamped; an empty model has no selection.
selectIndex(len, index) ==
    IF len = 0 THEN NoSelection
    ELSE IF index < 0 THEN 0
    ELSE IF index >= len THEN len - 1
    ELSE index

VARIABLES
    setup,              \* where setupFileWatchers stands
    subscriptions,      \* context.subscriptions: whether the extension is active, and
                        \*   the watchers disposed of when it was deactivated
    disk,               \* what each watched file holds
    projectsToExclude,  \* the projects-to-exclude setting
    workbenches,        \* ExtensionState.workbench: the list
    workbenchSel,       \*   and its selectedIndex
    workspaces,         \* ExtensionState.workspace: the list
    workspaceSel,       \*   and its selectedIndex
    fallbackProjects,   \* ExtensionState.getFallbackProjects()
    projects,           \* ExtensionState.project: the list
    projectSel,         \*   and its selectedIndex
    configs,            \* ExtensionState.config: the list
    configSel,          \*   and its selectedIndex
    ewwHandler,         \* the suspended onFileModified handler of the workspace watcher
    ewpHandler,         \* the suspended onFileModified handler of the project watcher
    lastDelivery,       \* history: what each watcher last delivered to subscribe
    report,             \* history: what the last step did
    cleared             \* history: the models whose selection the last step took away

modelVars == <<workbenches, workbenchSel, workspaces, workspaceSel, fallbackProjects,
               projects, projectSel, configs, configSel>>
reconVars == <<setup, subscriptions, disk, projectsToExclude, workbenches, workbenchSel,
               workspaces, workspaceSel, fallbackProjects,
               projects, projectSel, configs, configSel, ewwHandler, ewpHandler,
               lastDelivery, report, cleared>>

\* The projects of a workspace: the known projects the workspace file lists.
projectsOf(workspace, known) ==
    LET Listed(e) == e.path \in WsProjects(workspace.path, workspace.content)
    IN SelectSeq(known, Listed)

\* The project model after the workspace selection went from oldWs to newWs,
\* here without clearing the selection when the workspace selection is lost.
cascadeProject_KeepSelection(oldWs, newWs, known, list, sel) ==
    IF newWs = oldWs THEN [list |-> list, sel |-> sel]
    ELSE LET candidates == IF newWs = Undefined THEN known ELSE projectsOf(newWs, known)
         IN [list |-> candidates,
             sel |-> setSelection_ByIndex(PathsOf(list), sel, PathsOf(candidates))]

\* The project model after the workspace selection went from oldWs to newWs.
cascadeProject(oldWs, newWs, known, list, sel) ==
    IF newWs = oldWs THEN [list |-> list, sel |-> sel]
    ELSE IF newWs = Undefined THEN [list |-> known, sel |-> NoSelection]
    ELSE LET candidates == projectsOf(newWs, known)
         IN [list |-> candidates,
             sel |-> setSelection(PathsOf(list), sel, PathsOf(candidates))]

\* The configuration model after the project selection went from oldPrj to newPrj.
cascadeConfig(oldPrj, newPrj, list, sel) ==
    IF newPrj = oldPrj THEN [list |-> list, sel |-> sel]
    ELSE IF newPrj = Undefined THEN [list |-> <<>>, sel |-> NoSelection]
    ELSE LET candidates == ProjectConfigs(newPrj.content)
         IN [list |-> candidates, sel |-> setSelection(list, sel, candidates)]

\* The selection models as one value.
models == [workbenches |-> workbenches, workbenchSel |-> workbenchSel,
           workspaces |-> workspaces, workspaceSel |-> workspaceSel,
           fallbackProjects |-> fallbackProjects,
           projects |-> projects, projectSel |-> projectSel,
           configs |-> configs, configSel |-> configSel]

\* The project model of m becomes (list, sel); the configuration model follows.
UpdateProjectModel(m, list, sel) ==
    LET c == cascadeConfig(selected(m.projects, m.projectSel), selected(list, sel),
                           m.configs, m.configSel)
    IN [m EXCEPT !.projects = list, !.projectSel = sel,
                 !.configs = c.list, !.configSel = c.sel]

\* The workspace model of m becomes (list, sel); the project and configuration
\* models follow.
UpdateWorkspaceModel(m, list, sel) ==
    LET p == cascadeProject(selected(m.workspaces, m.workspaceSel), selected(list, sel),
                            m.fallbackProjects, m.projects, m.projectSel)
    IN UpdateProjectModel([m EXCEPT !.workspaces = list, !.workspaceSel = sel],
                          p.list, p.sel)

\* ExtensionState.setFallbackProjects: with no workspace selected the project
\* model shows the fallback projects.
setFallbackProjects(m, list) ==
    IF m.workspaceSel = NoSelection
    THEN UpdateProjectModel([m EXCEPT !.fallbackProjects = list], list,
                            setSelection(PathsOf(m.projects), m.projectSel, PathsOf(list)))
    ELSE [m EXCEPT !.fallbackProjects = list]

(***************************************************************************)
(* The watcher callbacks of setupFileWatchers.                             *)
(***************************************************************************)
Range(seq) == {seq[i] : i \in 1..Len(seq)}
Reverse(seq) == [i \in 1..Len(seq) |-> seq[Len(seq) + 1 - i]]

Parsable == {Version1, Version2}

\* The order in which a watcher lists its files, and the reverse order.
EwwOrder == <<W1, W2>>
EwpOrder == <<PA, PB, PA2, PBackup>>

watchedFiles(order, d) ==
    LET Present(f) == d[f] # Absent IN SelectSeq(order, Present)

Deliveries(order, d) == {watchedFiles(order, d), Reverse(watchedFiles(order, d))}

\* Toolchains by install path, and the lists collectWorkbenches finds.
WbArm == "/opt/iar/arm"
WbRiscv == "/opt/iar/riscv"
WorkbenchLists == {<<>>, <<WbArm>>, <<WbArm, WbRiscv>>, <<WbRiscv, WbArm>>}

\* The values of the projects-to-exclude setting.
ExcludeValues == {{}, {PB}}

IdleEww == [stage |-> "idle", old |-> Undefined, reloaded |-> Undefined]
IdleEwp == [stage |-> "idle", old |-> Undefined, file |-> ""]

\* Objects are told apart by ref: a new object takes the least ref that no
\* object of the same path still held by a list or a handler has.
liveEww == Range(workspaces) \cup {ewwHandler.old, ewwHandler.reloaded}
liveEwp == Range(fallbackProjects) \cup Range(projects) \cup {ewpHandler.old}

freshRef(path, live) ==
    LET used == {e.ref : e \in {x \in live : x.path = path}}
    IN CHOOSE n \in 0..Cardinality(used) : n \notin used /\ \A k \in 0..(n - 1) : k \in used

\* new EwwFile(file) / new EwpFile(file), for a file the parser accepts.
newEntity(file, d, live) == [path |-> file, content |-> d[file], ref |-> freshRef(file, live)]

\* The forEach with its try/catch, had the try enclosed the loop: the files
\* before the first one that fails.
RECURSIVE tryParseEach_StopAtError(_, _)
tryParseEach_StopAtError(files, d) ==
    IF files = <<>> \/ d[Head(files)] \notin Parsable THEN <<>>
    ELSE <<Head(files)>> \o tryParseEach_StopAtError(Tail(files), d)

\* The forEach with its try/catch: the files that parse, in the order delivered.
tryParseEach(files, d) ==
    LET Ok(f) == d[f] \in Parsable IN SelectSeq(files, Ok)

\* The files as delivered, none filtered out.
notIgnored_KeepAll(files, exclude) == files

\* files.filter(file => !Project.isIgnoredFile(file))
notIgnored(files, exclude) ==
    LET Kept(f) == ~isIgnoredFile(f, exclude) IN SelectSeq(files, Kept)

\* JSON.stringify of a list of entities: what was parsed, not which object holds it.
stringify(list) == [i \in 1..Len(list) |-> [path |-> list[i].path, content |-> list[i].content]]

\* The comparison of the project subscribe handler, by object instead of by text.
fallbackChanged_ByObject(list, fallback) == list # fallback

\* JSON.stringify(projects) !== JSON.stringify(getFallbackProjects())
fallbackChanged(list, fallback) == stringify(list) # stringify(fallback)

\* array.find with a predicate that holds for every entity.
find_First(list, file) == IF list = <<>> THEN Undefined ELSE list[1]

\* array.find(e => OsUtils.pathsEqual(e.path, modifiedFile))
find(list, file) ==
    LET S == {i \in 1..Len(list) : list[i].path = file} IN
    IF S = {} THEN Undefined ELSE list[CHOOSE i \in S : \A j \in S : i <= j]

\* The forEach that builds updatedWorkspaces / updatedProjects, had it pushed
\* nothing for the old entity.
replaceEntity_Dropping(list, old, reloaded) ==
    LET Other(e) == e # old IN SelectSeq(list, Other)

\* The forEach that builds updatedWorkspaces / updatedProjects.
replaceEntity(list, old, reloaded) ==
    [i \in 1..Len(list) |-> IF list[i] = old THEN reloaded ELSE list[i]]

\* The test of line 162, had it been left out.
isSelected_Always(list, sel, old) == TRUE

\* Line 162: workspace.selected === oldWorkspace.
isSelected(list, sel, old) == selected(list, sel) = old

\* EwWorkspace.equal and Project.equal: the same file with the same meaning.
workspaceEqual(w1, w2) ==
    w1.path = w2.path /\ WsProjects(w1.path, w1.content) = WsProjects(w2.path, w2.content)
projectEqual(p1, p2) ==
    p1.path = p2.path /\ ProjectConfigs(p1.content) = ProjectConfigs(p2.content)

\* The test of line 203, had it been left out.
differs_Always(oldProject, reloadedProject) == TRUE

\* Line 203: !Project.equal(oldProject, reloadedProject).
differs(oldProject, reloadedProject) == ~projectEqual(oldProject, reloadedProject)

\* What a step did: the files it gave to the parser, the errors it logged, the
\* calls of set() it made and the paths of the list it handed over, whether it
\* ended in a rejected promise, which reload it asked for, and whether the
\* index of a message was outside its list.
NoReport == [event |-> "none", parsed |-> {}, errors |-> 0, sets |-> 0, handed |-> <<>>,
             rejected |-> FALSE, reload |-> "", outOfRange |-> FALSE]

NoDelivery == [seen |-> FALSE, files |-> <<>>, contents |-> <<>>, exclude |-> {},
               called |-> FALSE, repeats |-> FALSE]

ContentsOf(files, d) == [i \in 1..Len(files) |-> d[files[i]]]

\* Whether a delivery hands over the files, in the order and with the contents,
\* of the delivery before it, the projects-to-exclude setting being the same.
Repeats(kind, files, d, exclude) ==
    /\ lastDelivery[kind].seen
    /\ lastDelivery[kind].files = files
    /\ lastDelivery[kind].contents = ContentsOf(files, d)
    /\ lastDelivery[kind].exclude = exclude

\* Lines 126-142: the subscribe callback of the workspace watcher, on files holding d.
ewwSubscribe(files, d) ==
    LET ok == tryParseEach(files, d)
        parsed == [i \in 1..Len(ok) |-> newEntity(ok[i], d, liveEww)]
        sorted == sortByName(parsed)
    IN [models |-> UpdateWorkspaceModel(models, sorted,
                       setSelection(PathsOf(workspaces), workspaceSel, PathsOf(sorted))),
        parsed |-> Range(files),
        handed |-> PathsOf(sorted),
        errors |-> Len(files) - Len(ok),
        called |-> TRUE]

\* Lines 173-192: the subscribe callback of the project watcher, on files holding d,
\* with the projects-to-exclude setting at exclude.
ewpSubscribe(files, d, exclude) ==
    LET kept == notIgnored(files, exclude)
        ok == tryParseEach(kept, d)
        parsed == [i \in 1..Len(ok) |-> newEntity(ok[i], d, liveEwp)]
        sorted == sortByName(parsed)
        changed == fallbackChanged(sorted, fallbackProjects)
    IN [models |-> IF changed THEN setFallbackProjects(models, sorted) ELSE models,
        parsed |-> Range(kept),
        handed |-> IF changed THEN PathsOf(sorted) ELSE <<>>,
        errors |-> Len(kept) - Len(ok),
        called |-> changed]

\* Which number an object carries is of no consequence: the objects of one path
\* are numbered in the order in which the entities of all hold them.
rank(all, e) ==
    LET same == {i \in 1..Len(all) : all[i].path = e.path}
        first == CHOOSE i \in same : all[i].ref = e.ref /\ \A j \in same : all[j].ref = e.ref => i <= j
    IN Cardinality({all[j].ref : j \in {k \in same : k < first}})

renumbered(all, e) == IF e = Undefined THEN e ELSE [e EXCEPT !.ref = rank(all, e)]

\* A step ends with the selection models at m and the handlers at ewwH and ewpH.
Becomes(m, ewwH, ewpH) ==
    LET allEww == m.workspaces \o <<ewwH.old, ewwH.reloaded>>
        allEwp == m.fallbackProjects \o m.projects \o <<ewpH.old>>
        Each(all, list) == [i \in 1..Len(list) |-> renumbered(all, list[i])]
    IN /\ workbenches' = m.workbenches
       /\ workbenchSel' = m.workbenchSel
       /\ workspaces' = Each(allEww, m.workspaces)
       /\ workspaceSel' = m.workspaceSel
       /\ fallbackProjects' = Each(allEwp, m.fallbackProjects)
       /\ projects' = Each(allEwp, m.projects)
       /\ projectSel' = m.projectSel
       /\ configs' = m.configs
       /\ configSel' = m.configSel
       /\ ewwHandler' = [ewwH EXCEPT !.old = renumbered(allEww, @),
                                     !.reloaded = renumbered(allEww, @)]
       /\ ewpHandler' = [ewpH EXCEPT !.old = renumbered(allEwp, @)]
       /\ cleared' = {k \in {"workbenchSel", "workspaceSel", "projectSel", "configSel"} :
                         models[k] # NoSelection /\ m[k] = NoSelection}

\* The workspace watcher calls its subscribe callback with files.
EwwSubscribed(files, d) ==
    LET did == ewwSubscribe(files, d)
    IN /\ Becomes(did.models, ewwHandler, ewpHandler)
       /\ lastDelivery' = [lastDelivery EXCEPT !["eww"] =
              [seen |-> TRUE, files |-> files, contents |-> ContentsOf(files, d),
               exclude |-> {}, called |-> did.called,
               repeats |-> Repeats("eww", files, d, {})]]
       /\ report' = [NoReport EXCEPT !.event = "eww.subscribe", !.parsed = did.parsed,
                                     !.errors = did.errors, !.sets = 1,
                                     !.handed = did.handed]

\* The project watcher calls its subscribe callback with files, after a file
\* event (reload = "") or in refreshFiles() (reload = "files").
EwpSubscribedIn(reload, files, d, exclude) ==
    LET did == ewpSubscribe(files, d, exclude)
    IN /\ Becomes(did.models, ewwHandler, ewpHandler)
       /\ lastDelivery' = [lastDelivery EXCEPT !["ewp"] =
              [seen |-> TRUE, files |-> files, contents |-> ContentsOf(files, d),
               exclude |-> exclude, called |-> did.called,
               repeats |-> Repeats("ewp", files, d, exclude)]]
       /\ report' = [NoReport EXCEPT !.event = "ewp.subscribe", !.parsed = did.parsed,
                                     !.errors = did.errors,
                                     !.sets = IF did.called THEN 1 ELSE 0,
                                     !.handed = did.handed, !.reload = reload]

EwpSubscribed(files, d, exclude) == EwpSubscribedIn("", files, d, exclude)

\* A step that calls no handler and no model.
Untouched == Becomes(models, ewwHandler, ewpHandler)

\* A watcher that calls back whether or not a callback is still running.
accepts_Always(handler) == TRUE

\* A watcher takes up its next event when the callbacks of the one before have
\* run to their end.
accepts(handler) == handler.stage = "idle"

\* A watcher whose disposal goes unnoticed.
isDisposed_Never(kind) == FALSE

\* FileListWatcher.dispose has been called on the watcher of a kind.
isDisposed(kind) == kind \in subscriptions.disposed

\* A watcher calls back from its initialization until it is disposed of.
EwwLive == setup \in {"eww", "ewwOnly", "ready"} /\ ~isDisposed("eww")
EwpLive == setup = "ready" /\ ~isDisposed("ewp")

\* Lines 123-142: the workspace watcher is initialised; subscribe calls the
\* callback at once with the files found.
SetupEww(files) ==
    /\ setup = "start"
    /\ files \in Deliveries(EwwOrder, disk)
    /\ setup' = "eww"
    /\ EwwSubscribed(files, disk)
    /\ UNCHANGED <<subscriptions, disk, projectsToExclude>>

\* Line 123: FileListWatcher.initialize("**/*.eww") is rejected; the await throws.
SetupEwwFails ==
    /\ setup = "start"
    /\ setup' = "failed"
    /\ report' = [NoReport EXCEPT !.event = "eww.initFailed", !.rejected = TRUE]
    /\ Untouched
    /\ UNCHANGED <<subscriptions, disk, projectsToExclude, lastDelivery>>

\* Lines 170-192.
SetupEwp(files) ==
    /\ setup = "eww"
    /\ files \in Deliveries(EwpOrder, disk)
    /\ setup' = "ready"
    /\ EwpSubscribed(files, disk, projectsToExclude)
    /\ UNCHANGED <<subscriptions, disk, projectsToExclude>>

\* Line 170: FileListWatcher.initialize("**/*.ewp") is rejected.
SetupEwpFails ==
    /\ setup = "eww"
    /\ setup' = "ewwOnly"
    /\ report' = [NoReport EXCEPT !.event = "ewp.initFailed", !.rejected = TRUE]
    /\ Untouched
    /\ UNCHANGED <<subscriptions, disk, projectsToExclude, lastDelivery>>

\* A workspace file is created, deleted or replaced (deleted and created again
\* in one burst); the watcher delivers the settled file set to subscribe.
EwwDelivered(f, c, files) ==
    /\ EwwLive /\ accepts(ewwHandler)
    /\ f \in EwwPaths /\ ~(disk[f] = Absent /\ c = Absent)
    /\ disk' = [disk EXCEPT ![f] = c]
    /\ files \in Deliveries(EwwOrder, disk')
    /\ EwwSubscribed(files, disk')
    /\ UNCHANGED <<setup, subscriptions, projectsToExclude>>

\* The same for a project file.
EwpDelivered(f, c, files) ==
    /\ EwpLive /\ accepts(ewpHandler)
    /\ f \in EwpPaths /\ ~(disk[f] = Absent /\ c = Absent)
    /\ disk' = [disk EXCEPT ![f] = c]
    /\ files \in Deliveries(EwpOrder, disk')
    /\ EwpSubscribed(files, disk', projectsToExclude)
    /\ UNCHANGED <<setup, subscriptions, projectsToExclude>>

\* Lines 217-218: the projects-to-exclude setting is written; refreshFiles()
\* delivers the current files again.
ExcludeSettingChanged(exclude, files) ==
    /\ EwpLive /\ accepts(ewpHandler)
    /\ exclude \in ExcludeValues
    /\ projectsToExclude' = exclude
    /\ files \in Deliveries(EwpOrder, disk)
    /\ EwpSubscribedIn("files", files, disk, exclude)
    /\ UNCHANGED <<setup, subscriptions, disk>>

\* Lines 144-151: a workspace file is written; onFileModified runs up to its
\* first await.
EwwFileModified(f, c) ==
    /\ EwwLive /\ accepts(ewwHandler)
    /\ f \in EwwPaths /\ disk[f] # Absent /\ c # Absent
    /\ disk' = [disk EXCEPT ![f] = c]
    /\ LET oldWorkspace == find(workspaces, f) IN
       IF oldWorkspace = Undefined
       THEN /\ Untouched
            /\ report' = [NoReport EXCEPT !.event = "eww.modified.untracked"]
       ELSE IF c \notin Parsable
       THEN /\ Untouched
            /\ report' = [NoReport EXCEPT !.event = "eww.modified.parseFailed",
                                          !.parsed = {f}, !.rejected = TRUE]
       ELSE /\ Becomes(models,
                       [stage |-> "equal", old |-> oldWorkspace,
                        reloaded |-> newEntity(f, disk', liveEww)],
                       ewpHandler)
            /\ report' = [NoReport EXCEPT !.event = "eww.modified", !.parsed = {f}]
    /\ UNCHANGED <<setup, subscriptions, projectsToExclude, lastDelivery>>

\* Lines 151-166: EwWorkspace.equal has answered.
EwwModifiedResumes ==
    /\ ewwHandler.stage = "equal"
    /\ LET oldWorkspace == ewwHandler.old
           reloadedWorkspace == ewwHandler.reloaded
       IN IF ~workspaceEqual(oldWorkspace, reloadedWorkspace)
          THEN LET updatedWorkspaces ==
                       replaceEntity(workspaces, oldWorkspace, reloadedWorkspace)
               IN /\ Becomes(UpdateWorkspaceModel(models, updatedWorkspaces,
                                 setSelection(PathsOf(workspaces), workspaceSel,
                                              PathsOf(updatedWorkspaces))),
                             IdleEww, ewpHandler)
                  /\ report' = [NoReport EXCEPT !.event = "eww.modified.set", !.sets = 1,
                                                !.handed = PathsOf(updatedWorkspaces)]
          ELSE /\ Becomes(models, IdleEww, ewpHandler)
               /\ report' = [NoReport EXCEPT
                      !.event = "eww.modified.equal",
                      !.reload = IF isSelected(workspaces, workspaceSel, oldWorkspace)
                                 THEN "workspace" ELSE ""]
    /\ UNCHANGED <<setup, subscriptions, disk, projectsToExclude, lastDelivery>>

\* Lines 194-200: a project file is written; onFileModified runs up to
\* await reloadProject(oldProject).
EwpFileModified(f, c) ==
    /\ EwpLive /\ accepts(ewpHandler)
    /\ f \in EwpPaths /\ disk[f] # Absent /\ c # Absent
    /\ disk' = [disk EXCEPT ![f] = c]
    /\ LET oldProject == find(projects, f) IN
       IF oldProject = Undefined
       THEN /\ Untouched
            /\ report' = [NoReport EXCEPT !.event = "ewp.modified.untracked"]
       ELSE /\ Becomes(models, ewwHandler,
                       [stage |-> "reload", old |-> oldProject, file |-> f])
            /\ report' = [NoReport EXCEPT !.event = "ewp.modified", !.reload = "project"]
    /\ UNCHANGED <<setup, subscriptions, projectsToExclude, lastDelivery>>

\* Lines 202-213: reloadProject has ended; the file is parsed again.
EwpModifiedResumes ==
    /\ ewpHandler.stage = "reload"
    /\ LET oldProject == ewpHandler.old
           modifiedFile == ewpHandler.file
       IN IF disk[modifiedFile] \notin Parsable
          THEN /\ Becomes(models, ewwHandler, IdleEwp)
               /\ report' = [NoReport EXCEPT !.event = "ewp.modified.parseFailed",
                                             !.parsed = {modifiedFile}, !.rejected = TRUE]
          ELSE LET reloadedProject == newEntity(modifiedFile, disk, liveEwp) IN
               IF differs(oldProject, reloadedProject)
               THEN LET updatedProjects ==
                            replaceEntity(projects, oldProject, reloadedProject)
                    IN /\ Becomes(UpdateProjectModel(models, updatedProjects,
                                      setSelection(PathsOf(projects), projectSel,
                                                   PathsOf(updatedProjects))),
                                  ewwHandler, IdleEwp)
                       /\ report' = [NoReport EXCEPT !.event = "ewp.modified.set",
                                                     !.parsed = {modifiedFile}, !.sets = 1,
                                                     !.handed = PathsOf(updatedProjects)]
               ELSE /\ Becomes(models, ewwHandler, IdleEwp)
                    /\ report' = [NoReport EXCEPT !.event = "ewp.modified.equal",
                                                  !.parsed = {modifiedFile}]
    /\ UNCHANGED <<setup, subscriptions, disk, projectsToExclude, lastDelivery>>

\* settingswebview.ts lines 100-114: the view reports a selection.
SelectInView(subject, index) ==
    /\ subject \in {"Workbench", "Workspace", "Project", "Config"}
    /\ LET model == CASE subject = "Workbench" -> workbenches
                       [] subject = "Workspace" -> workspaces
                       [] subject = "Project" -> projects
                       [] subject = "Config" -> configs
       IN report' = [NoReport EXCEPT !.event = "select" \o subject,
                                     !.outOfRange = index \notin 0..(Len(model) - 1)]
    /\ IF subject = "Workbench"
       THEN /\ index \in -1..Len(workbenches)
            /\ Becomes([models EXCEPT
                           !.workbenchSel = selectIndex(Len(workbenches), index)],
                       ewwHandler, ewpHandler)
       ELSE IF subject = "Workspace"
       THEN /\ index \in -1..Len(workspaces)
            /\ Becomes(UpdateWorkspaceModel(models, workspaces,
                           selectIndex(Len(workspaces), index)),
                       ewwHandler, ewpHandler)
       ELSE IF subject = "Project"
       THEN /\ index \in -1..Len(projects)
            /\ Becomes(UpdateProjectModel(models, projects,
                           selectIndex(Len(projects), index)),
                       ewwHandler, ewpHandler)
       ELSE /\ index \in -1..Len(configs)
            /\ Becomes([models EXCEPT !.configSel = selectIndex(Len(configs), index)],
                       ewwHandler, ewpHandler)
    /\ UNCHANGED <<setup, subscriptions, disk, projectsToExclude, lastDelivery>>

\* Lines 124 and 171: the watchers are pushed to context.subscriptions, which
\* are disposed of when the extension is deactivated.
Deactivate ==
    /\ subscriptions.active
    /\ subscriptions' = [active |-> FALSE,
                         disposed |-> {k \in {"eww"} : setup \in {"eww", "ewwOnly", "ready"}}
                                      \cup {k \in {"ewp"} : setup = "ready"}]
    /\ report' = [NoReport EXCEPT !.event = "deactivate"]
    /\ Untouched
    /\ UNCHANGED <<setup, disk, projectsToExclude, lastDelivery>>

\* A file of a disposed watcher is created, deleted or written: nothing is
\* called.
UnwatchedFileChanged(f, c) ==
    /\ \/ f \in EwwPaths /\ isDisposed("eww")
       \/ f \in EwpPaths /\ isDisposed("ewp")
    /\ disk[f] # c
    /\ disk' = [disk EXCEPT ![f] = c]
    /\ report' = [NoReport EXCEPT !.event = "unwatched"]
    /\ Untouched
    /\ UNCHANGED <<setup, subscriptions, projectsToExclude, lastDelivery>>

\* The calls of loadTools: the first is the one activate makes (line 103), the
\* others are made when the install-directories setting is written (line 104).
MaxLoads == 2
Loads == 1..MaxLoads

\* IarVsc.workbenchesLoading (line 243) as the settings view has it
\* (settingswebview.ts lines 77-80), and where each call of loadTools is.
VARIABLES workbenchesLoading, loadTools
toolVars == <<workbenchesLoading, loadTools>>

InitTools ==
    /\ workbenchesLoading = FALSE
    /\ loadTools = [i \in Loads |-> "notCalled"]

\* The calls of loadTools that are between their start and their end.
InFlight == {i \in Loads : loadTools[i] = "collecting"}

\* Lines 222-225: loadTools raises the flag and awaits collectWorkbenches.
LoadToolsStarts(i) ==
    /\ loadTools[i] = "notCalled"
    /\ i = 1 \/ loadTools[1] # "notCalled"
    /\ workbenchesLoading' = TRUE
    /\ loadTools' = [loadTools EXCEPT ![i] = "collecting"]
    /\ UNCHANGED reconVars

\* Line 225: collectWorkbenches is rejected, and with it the promise of
\* loadTools; line 237 is not reached.
CollectWorkbenchesFails(i) ==
    /\ loadTools[i] = "collecting"
    /\ loadTools' = [loadTools EXCEPT ![i] = "rejected"]
    /\ UNCHANGED <<workbenchesLoading, reconVars>>

\* Lines 225-237: collectWorkbenches has found the toolchains of the install
\* directories, the workbench model holds them, and loadTools lowers the flag.
WorkbenchesCollected(i, found) ==
    /\ loadTools[i] = "collecting"
    /\ workbenchesLoading' = FALSE
    /\ loadTools' = [loadTools EXCEPT ![i] = "fulfilled"]
    /\ found \in WorkbenchLists
    /\ Becomes([models EXCEPT
                   !.workbenches = found,
                   !.workbenchSel = setSelection(workbenches, workbenchSel, found)],
               ewwHandler, ewpHandler)
    /\ report' = [NoReport EXCEPT !.event = "workbenches", !.sets = 1]
    /\ UNCHANGED <<setup, subscriptions, disk, projectsToExclude, lastDelivery>>

\* The folder as setupFileWatchers finds it, its files holding d.
InitRecon(d) ==
    /\ setup = "start"
    /\ subscriptions = [active |-> TRUE, disposed |-> {}]
    /\ disk = d
    /\ projectsToExclude = {}
    /\ workbenches = <<>> /\ workbenchSel = NoSelection
    /\ workspaces = <<>> /\ workspaceSel = NoSelection
    /\ fallbackProjects = <<>>
    /\ projects = <<>> /\ projectSel = NoSelection
    /\ configs = <<>> /\ configSel = NoSelection
    /\ ewwHandler = IdleEww
    /\ ewpHandler = IdleEwp
    /\ lastDelivery = [kind \in {"eww", "ewp"} |-> NoDelivery]
    /\ InitTools
    /\ report = NoReport
    /\ cleared = {}

\* Two workspaces, two projects and a backup of one of them.
TwoWorkspaces ==
    [f \in EwwPaths \cup EwpPaths |-> IF f = PA2 THEN Absent ELSE Version1]

\* One workspace, two projects and a backup of one of them.
OneWorkspace == [TwoWorkspaces EXCEPT ![W2] = Absent]

\* setupFileWatchers starts the two watchers.
Setup ==
    \/ \E files \in Deliveries(EwwOrder, disk) : SetupEww(files)
    \/ SetupEwwFails
    \/ \E files \in Deliveries(EwpOrder, disk) : SetupEwp(files)
    \/ SetupEwpFails

\* Workspace files come and go: the files of DOMAIN env, env[f] being what f may hold.
WatchingEww(env) ==
    \E f \in DOMAIN env, c \in Contents :
        /\ c \in env[f]
        /\ \E files \in Deliveries(EwwOrder, [disk EXCEPT ![f] = c]) :
               EwwDelivered(f, c, files)

\* Project files come and go.
WatchingEwp(env) ==
    \E f \in DOMAIN env, c \in Contents :
        /\ c \in env[f]
        /\ \E files \in Deliveries(EwpOrder, [disk EXCEPT ![f] = c]) :
               EwpDelivered(f, c, files)

\* Workspace files are written in place.
ModifyingEww(env) ==
    \/ \E f \in DOMAIN env, c \in Contents : c \in env[f] /\ EwwFileModified(f, c)
    \/ EwwModifiedResumes

\* Project files are written in place.
ModifyingEwp(env) ==
    \/ \E f \in DOMAIN env, c \in Contents : c \in env[f] /\ EwpFileModified(f, c)
    \/ EwpModifiedResumes

\* The projects-to-exclude setting is written.
Configuring ==
    \E exclude \in ExcludeValues, files \in Deliveries(EwpOrder, disk) :
        ExcludeSettingChanged(exclude, files)

\* The settings view reports selections.
Selecting ==
    \E subject \in {"Workspace", "Project", "Config"}, index \in -1..MaxIndex :
        SelectInView(subject, index)

(***************************************************************************)
(* Calls of the functions of utils.ts that keep no state:                  *)
(* BackupUtils.isBackupFile and ListUtils.mergeUnique.                     *)
(***************************************************************************)
VARIABLES
    input,              \* the function called and its arguments
    output              \* what the call returned, once it has

utilVars == <<input, output>>

NoInput == [fn |-> "none"]
NotReturned == [done |-> FALSE]

\* The paths isBackupFile is called with: a directory, which may itself look
\* like a backup, and a file name put together from the parts the two patterns
\* tell apart.
Directories == {<<>>, Chars("/"), Chars("/ws/"), Chars("/Backup of x.ewp/"), Chars("rel/sub/")}

EngNames ==
    {Chars(word \o gap \o number \o "of" \o rest \o ext) :
        word \in {"Backup", "MyBackup", "backup"},
        gap \in {" ", "  ", ""},
        number \in {"", "(2) ", "(12)\t", "(2)", "() "},
        rest \in {" Foo", "Foo", ""},
        ext \in {".ewp", ".ewt", ".ewp.bak"}}

JpnNames ==
    {Chars(stem \o gap) \o JpnBackupWord \o Chars(number \o ext) :
        stem \in {"Foo", ""},
        gap \in {" ", "  ", ""},
        number \in {"", " (3)", "(3)", " ()", " (3) "},
        ext \in {".ewp", ".ewt"}}

\* The names spec section 8 gives, and the forms without a number.
BackupNumbered == Chars("Backup (2) of Foo.ewp")
BackupPlain == Chars("Backup of Foo.ewp")
JpnNumbered == Chars("Foo ") \o JpnBackupWord \o Chars(" (3).ewp")
JpnPlain == Chars("Foo ") \o JpnBackupWord \o Chars(".ewp")
MyBackupFile == Chars("MyBackupFile.ewp")

FileNames ==
    EngNames \cup JpnNames
        \cup {BackupNumbered, BackupPlain, JpnNumbered, JpnPlain, MyBackupFile}

\* The items mergeUnique is called with: getKey gives their key; two of them
\* share one.
Items == {[key |-> "arm", tag |-> 1], [key |-> "arm", tag |-> 2], [key |-> "riscv", tag |-> 1]}
getKey(item) == item.key

\* The greatest number of lists in a call of mergeUnique, and their greatest length.
MaxLists == 2
MaxListLen == 2

SeqsUpTo(S, n) == UNION {[1..k -> S] : k \in 0..n}

RECURSIVE flatten(_)
flatten(lists) == IF lists = <<>> THEN <<>> ELSE Head(lists) \o flatten(Tail(lists))

\* The lists one after the other, nothing removed.
mergeUnique_Concat(lists) == flatten(lists)

\* ListUtils.mergeUnique: a Map from key to item, filled list by list and item
\* by item.  A Map keeps its keys in the order of their first insertion and,
\* for each key, the value set last.
mergeUnique(lists) ==
    LET all == flatten(lists)
        First(i) == \A j \in 1..(i - 1) : getKey(all[j]) # getKey(all[i])
        firsts == SelectSeq([i \in 1..Len(all) |-> i], First)
        Last(key) == CHOOSE i \in 1..Len(all) :
                         /\ getKey(all[i]) = key
                         /\ \A j \in (i + 1)..Len(all) : getKey(all[j]) # key
    IN [n \in 1..Len(firsts) |-> all[Last(getKey(all[firsts[n]]))]]

(***************************************************************************)
(* ProcessUtils.waitForExit: one call, on a child process that emits 'exit' *)
(* and 'error' events while the call waits.                                 *)
(***************************************************************************)
\* The code of an 'exit' event when the process was ended by a signal: null.
Null == -1
ExitCodes == {0, 1, Null}
ProcessEvents ==
    {[type |-> "exit", code |-> c] : c \in ExitCodes} \cup {[type |-> "error", code |-> Null]}

\* How many events the process emits while the call waits.
MaxEvents == 3

Waiting == [state |-> "pending", value |-> Null]

\* emitted: the events the listeners of lines 58 and 61 have been called with, in
\* order; exitCodePromise: the promise of waitForExitCode; exitPromise: the
\* promise of waitForExit.
VARIABLES emitted, exitCodePromise, exitPromise
procVars == <<emitted, exitCodePromise, exitPromise>>

InitWait ==
    /\ emitted = <<>>
    /\ exitCodePromise = Waiting
    /\ exitPromise = Waiting

\* resolve and reject of a promise: the first call settles it, the later ones
\* do nothing.
settle(promise, outcome) == IF promise.state = "pending" THEN outcome ELSE promise

\* Lines 58-61: what the listener of an event makes of the promise.
onEvent(promise, event) ==
    IF event.type = "exit"
    THEN settle(promise, [state |-> "fulfilled", value |-> event.code])
    ELSE settle(promise, [state |-> "rejected", value |-> Null])

\* Line 69 with a test for a positive code.
exitedWithFailure_Positive(code) == code > 0

\* Line 69: code !== 0.
exitedWithFailure(code) == code # 0

\* Lines 57-62: the process emits an event, and its listener runs.
ProcessEmits(event) ==
    /\ Len(emitted) < MaxEvents
    /\ emitted' = Append(emitted, event)
    /\ exitCodePromise' = onEvent(exitCodePromise, event)
    /\ UNCHANGED exitPromise

\* Lines 68-71: the await of waitForExitCode ends; waitForExit returns or throws.
WaitForExitResumes ==
    /\ exitPromise.state = "pending"
    /\ exitCodePromise.state # "pending"
    /\ exitPromise' =
          IF exitCodePromise.state = "rejected"
          THEN [state |-> "rejected", value |-> Null]
          ELSE IF exitedWithFailure(exitCodePromise.value)
          THEN [state |-> "rejected", value |-> exitCodePromise.value]
          ELSE [state |-> "fulfilled", value |-> 0]
    /\ UNCHANGED <<emitted, exitCodePromise>>

WaitingForExit ==
    \/ \E event \in ProcessEvents : ProcessEmits(event)
    \/ WaitForExitResumes

InitUtils == input = NoInput /\ output = NotReturned /\ InitWait

\* A call of isBackupFile or of mergeUnique is about to be made.
InitUtilCall ==
    /\ \/ \E folder \in Directories, name \in FileNames :
              input = [fn |-> "isBackupFile", folder |-> folder, name |-> name]
       \/ \E lists \in SeqsUpTo(SeqsUpTo(Items, MaxListLen), MaxLists) :
              input = [fn |-> "mergeUnique", lists |-> lists]
    /\ output = NotReturned

\* utils.ts lines 76-79.
CallIsBackupFile ==
    /\ input.fn = "isBackupFile" /\ ~output.done
    /\ output' = [done |-> TRUE, value |-> isBackupFile(input.folder \o input.name)]
    /\ UNCHANGED input

\* utils.ts lines 19-29.
CallMergeUnique ==
    /\ input.fn = "mergeUnique" /\ ~output.done
    /\ output' = [done |-> TRUE, value |-> mergeUnique(input.lists)]
    /\ UNCHANGED input

\* The extension is deactivated; files change afterwards.
Disposing(env) ==
    \/ Deactivate
    \/ \E f \in DOMAIN env, c \in Contents : c \in env[f] /\ UnwatchedFileChanged(f, c)

\* The toolchains are collected, and the settings view reports a toolchain.
Toolchains(loads) ==
    \/ \E i \in loads : LoadToolsStarts(i)
    \/ \E i \in loads, found \in WorkbenchLists : WorkbenchesCollected(i, found)
    \/ \E index \in -1..MaxIndex :
          SelectInView("Workbench", index) /\ UNCHANGED toolVars

\* collectWorkbenches is rejected.
ToolchainsFail == \E i \in Loads : CollectWorkbenchesFails(i)

(***************************************************************************)
(* The specifications.                                                     *)
(***************************************************************************)
vars == <<guardVars, reconVars, utilVars, toolVars, procVars>>

\* doWithBackupCheck is about to be called; the watchers are not set up.
InitCalls == InitGuard /\ InitRecon(TwoWorkspaces) /\ InitUtils

\* setupFileWatchers is about to run in a folder with two workspaces, or with
\* one; doWithBackupCheck is not called.
InitTwoWorkspaces == InitGuardIdle /\ InitRecon(TwoWorkspaces) /\ InitUtils
InitOneWorkspace == InitGuardIdle /\ InitRecon(OneWorkspace) /\ InitUtils

\* One call of doWithBackupCheck.
NextGuard == GuardStep({1}, TaskWrites) /\ UNCHANGED <<reconVars, utilVars, toolVars, procVars>>
SpecGuard == InitCalls /\ [][NextGuard]_vars

\* Two calls on the same project path, interleaved.
NextGuard2 == GuardStep(Runs, TaskWrites2) /\ UNCHANGED <<reconVars, utilVars, toolVars, procVars>>
SpecGuard2 == InitCalls /\ [][NextGuard2]_vars

\* The watchers, with a file of each kind coming, going and changing and the
\* setting written; nothing is selected.
NextDeliver ==
    /\ \/ Setup
       \/ WatchingEww(W1 :> {Absent, Corrupt, Version1})
       \/ WatchingEwp(PA :> {Absent, Corrupt, Version1})
       \/ ModifyingEww(W1 :> {Version2}) \/ ModifyingEwp(PA :> {Version2})
       \/ Configuring
    /\ UNCHANGED <<guardVars, utilVars, toolVars, procVars>>
SpecDeliver == InitTwoWorkspaces /\ [][NextDeliver]_vars

\* The watchers with a file of each kind written in place, a project file
\* coming and going, and selections made in the view.
NextModify ==
    /\ \/ Setup
       \/ WatchingEwp(PA :> {Absent, Version1})
       \/ ModifyingEww(W1 :> {Corrupt, Version2}) \/ ModifyingEwp(PA :> {Corrupt, Version2})
       \/ Selecting
    /\ UNCHANGED <<guardVars, utilVars, toolVars, procVars>>
SpecModify == InitOneWorkspace /\ [][NextModify]_vars

\* Selections made in the view while a workspace file comes, goes and changes.
NextSelect ==
    /\ \/ Setup
       \/ WatchingEww(W1 :> {Absent, Version1})
       \/ ModifyingEww(W1 :> Parsable)
       \/ Selecting
    /\ UNCHANGED <<guardVars, utilVars, toolVars, procVars>>
SpecSelect == InitTwoWorkspaces /\ [][NextSelect]_vars

\* The call of loadTools that activate makes and the first one made for the
\* setting.
FirstLoads == {1, 2}

\* The four models of the settings view: lists set by the watchers and by the
\* tool manager, selections made in the view.
NextView ==
    /\ \/ (Setup \/ WatchingEww(W1 :> {Absent, Version1}) \/ Selecting)
             /\ UNCHANGED toolVars
       \/ Toolchains(FirstLoads)
    /\ UNCHANGED <<guardVars, utilVars, procVars>>
SpecView == InitTwoWorkspaces /\ [][NextView]_vars

\* The watchers from their initialization to their disposal and after it,
\* with a file of each kind coming and going, a project file written in place
\* and the projects-to-exclude setting written.
NextDispose ==
    /\ \/ Setup
       \/ WatchingEww(W1 :> {Absent, Version1})
       \/ WatchingEwp(PA :> {Absent, Version1})
       \/ ModifyingEwp(PA :> {Version2})
       \/ Configuring
       \/ Disposing((W1 :> Contents) @@ (PA :> Contents))
    /\ UNCHANGED <<guardVars, utilVars, toolVars, procVars>>
SpecDispose == InitTwoWorkspaces /\ [][NextDispose]_vars

\* A project file written again and again while the view selects workspaces
\* and projects.
NextReload ==
    /\ \/ Setup
       \/ ModifyingEwp(PA :> Parsable)
       \/ Selecting
    /\ UNCHANGED <<guardVars, utilVars, toolVars, procVars>>
SpecReload == InitTwoWorkspaces /\ [][NextReload]_vars

\* The calls of loadTools, overlapping or not, and the toolchain chosen in the
\* settings view.
NextTools == (Toolchains(Loads) \/ ToolchainsFail) /\ UNCHANGED <<guardVars, utilVars, procVars>>
SpecTools == InitTwoWorkspaces /\ [][NextTools]_vars

\* One call of waitForExit.
NextWait == WaitingForExit /\ UNCHANGED <<guardVars, reconVars, utilVars, toolVars>>
SpecWait == InitTwoWorkspaces /\ [][NextWait]_vars

\* One call of isBackupFile or of mergeUnique; nothing else runs.
InitUtilCalls == InitGuardIdle /\ InitRecon(TwoWorkspaces) /\ InitUtilCall /\ InitWait
NextUtils ==
    /\ CallIsBackupFile \/ CallMergeUnique
    /\ UNCHANGED <<guardVars, reconVars, toolVars, procVars>>
SpecUtils == InitUtilCalls /\ [][NextUtils]_vars

(***************************************************************************)
(* Claims about the backup guard.                                          *)
(***************************************************************************)
\* A call whose cleanup ran to its end with no listing and no removal rejected.
CleanupSucceeded(r) == pc[r] = "done" /\ cleanup[r] = "fulfilled" /\ rmFailed[r] = {}

\* C1: once the task has settled and the cleanup has run with every removal
\* succeeding, every file name the second listing holds and the first listing
\* does not hold has been removed, however the directory changed under the task.
C1_NewBackupsRemoved ==
    \A r \in Runs :
        CleanupSucceeded(r) =>
            \A f \in backupFilesAfterExit[r] : f \notin originalBackupFiles[r] => f \in deleted[r]

\* C2: a call never removes a file that was in the directory at its first
\* listing, nor a file neither pattern matches; after a task that writes
\* "Backup of Foo.ewp" and "Backup of Foo.ewt" next to "Unrelated.ewp", exactly
\* the two backup files are removed and "Unrelated.ewp" remains.
C2_RemovesOnlyNewBackups ==
    \A r \in Runs :
        /\ deleted[r] \cap dirBefore[r] = {}
        /\ deleted[r] \cap {ProjectFile, Unrelated, OtherBackup} = {}
        /\ \A f \in deleted[r] : MatchesBackup(f, project)
        /\ ( /\ CleanupSucceeded(r)
             /\ dirBefore[r] = {ProjectFile, Unrelated}
             /\ created[r] = {BackupEwp, BackupEwt}
             /\ vanished = 0 )
           => (deleted[r] = {BackupEwp, BackupEwt} /\ dir = {ProjectFile, Unrelated})

C2_Witness ==
    \E r \in Runs :
        /\ CleanupSucceeded(r)
        /\ dirBefore[r] = {ProjectFile, Unrelated}
        /\ deleted[r] = {BackupEwp, BackupEwt}
        /\ Unrelated \in dir

\* C3: from the moment the task's promise is settled the caller's promise is
\* settled the same way, at every stage of the cleanup and whatever its outcome:
\* a rejected second listing or a rejected removal never reaches the caller.
C3_CallerFollowsTask ==
    \A r \in Runs : taskPromise[r] \in TaskResults => returned[r] = taskPromise[r]

C3_Witness ==
    \E r \in Runs :
        /\ cleanup[r] = "rejected"
        /\ taskPromise[r] = [kind |-> "fulfilled", value |-> "v1"]
        /\ returned[r] = taskPromise[r]

\* C4: once two interleaved calls on the same path have both ended, with no
\* removal rejected for a file that was there and nothing else touching the
\* directory, no backup file written by either task remains and no file that
\* was there before the first call has been removed.
C4_TwoCallsLeaveNoBackup ==
    ( /\ \A r \in Runs : pc[r] = "done" /\ cleanup[r] = "fulfilled"
      /\ \A r \in Runs : \A x \in rmFailed[r] : ~x.present
      /\ vanished = 0 )
    => /\ \A r \in Runs : \A f \in created[r] : MatchesBackup(f, project) => f \notin dir
       /\ \A r \in Runs : deleted[r] \cap dir0 = {}

(***************************************************************************)
(* Claims about the watcher callbacks and the selection models.            *)
(***************************************************************************)
\* The files of the last delivery of a kind that the parser accepts / rejects.
Accepted(kind) ==
    LET last == lastDelivery[kind]
    IN {last.files[i] : i \in {j \in 1..Len(last.files) : last.contents[j] \in Parsable}}
Rejected(kind) ==
    LET last == lastDelivery[kind]
    IN {last.files[i] : i \in {j \in 1..Len(last.files) : last.contents[j] \notin Parsable}}

\* What a file held when it was last delivered.
Delivered(kind, file) ==
    LET last == lastDelivery[kind]
    IN last.contents[CHOOSE i \in 1..Len(last.files) : last.files[i] = file]

\* A step in which the project watcher delivers again what it delivered last.
EwpRepeated == report'.event = "ewp.subscribe" /\ lastDelivery'["ewp"].repeats

Calls(delivery) == IF delivery.called THEN 1 ELSE 0

\* C5 as stated: whenever the project watcher delivers the same files with the
\* same contents twice in a row, the two deliveries together call
\* setFallbackProjects exactly once.
C5_ExactlyOneCall ==
    [][(report'.event = "ewp.subscribe" /\ lastDelivery["ewp"].seen
            /\ lastDelivery'["ewp"].files = lastDelivery["ewp"].files
            /\ lastDelivery'["ewp"].contents = lastDelivery["ewp"].contents)
        => Calls(lastDelivery["ewp"]) + Calls(lastDelivery'["ewp"]) = 1]_vars

\* C5: when the project watcher delivers the same files, in the same order and
\* with the same contents, twice in a row and the projects-to-exclude setting is
\* the same for both, the second delivery makes a list whose serialization is
\* that of getFallbackProjects(), does not call setFallbackProjects and changes
\* no model; the two deliveries together call setFallbackProjects at most once.
C5_RepeatIsDiscarded ==
    [][EwpRepeated =>
        /\ ~lastDelivery'["ewp"].called
        /\ report'.sets = 0
        /\ ~fallbackChanged(sortByName(
                [i \in 1..Len(tryParseEach(notIgnored(lastDelivery'["ewp"].files,
                                                         projectsToExclude'), disk')) |->
                    newEntity(tryParseEach(notIgnored(lastDelivery'["ewp"].files,
                                                      projectsToExclude'), disk')[i],
                              disk', liveEwp)]),
              fallbackProjects)
        /\ UNCHANGED modelVars
        /\ Calls(lastDelivery["ewp"]) + Calls(lastDelivery'["ewp"]) <= 1]_vars

\* A second delivery of two projects was discarded after the first had set them.
C5_Witness ==
    /\ report.event = "ewp.subscribe"
    /\ lastDelivery["ewp"].repeats
    /\ ~lastDelivery["ewp"].called
    /\ PathsOf(fallbackProjects) = <<PA, PB>>

\* C6: when the workspace watcher delivers the same files with the same
\* contents twice in a row, the second delivery does not call set() on the
\* workspace model.
C6_RepeatCallsNoSet ==
    (report.event = "eww.subscribe" /\ lastDelivery["eww"].repeats) => report.sets = 0

\* C7: after a subscribe delivery of either kind the list given to the model
\* holds one entity, with the delivered content, for each delivered file that
\* parses (and, for projects, is not ignored) and nothing else, and one error
\* is reported for each file whose parse failed, wherever in the delivery the
\* failing files are.
C7_ParseFailureIsolated ==
    /\ report.event = "eww.subscribe" =>
          /\ Range(PathsOf(workspaces)) = Accepted("eww")
          /\ Len(workspaces) = Cardinality(Accepted("eww"))
          /\ \A i \in 1..Len(workspaces) :
                 workspaces[i].content = Delivered("eww", workspaces[i].path)
          /\ report.errors = Cardinality(Rejected("eww"))
    /\ report.event = "ewp.subscribe" =>
          LET Ignored(f) == f \in lastDelivery["ewp"].exclude \/ isBackupFile(Chars(f))
              wanted == {f \in Accepted("ewp") : ~Ignored(f)}
              failed == {f \in Rejected("ewp") : ~Ignored(f)}
          IN /\ Range(PathsOf(fallbackProjects)) = wanted
             /\ Len(fallbackProjects) = Cardinality(wanted)
             /\ \A i \in 1..Len(fallbackProjects) :
                    fallbackProjects[i].content = Delivered("ewp", fallbackProjects[i].path)
             /\ report.errors = Cardinality(failed)

\* A project delivery whose first file failed to parse and whose later file is listed.
C7_Witness ==
    /\ report.event = "ewp.subscribe"
    /\ lastDelivery["ewp"].files[1] = PA
    /\ lastDelivery["ewp"].contents[1] = Corrupt
    /\ report.errors = 1
    /\ PathsOf(fallbackProjects) = <<PB>>

\* C8: when the re-parse of a tracked file fails in onFileModified, the
\* failure is logged by the handler, which ends normally.
C8_ReparseFailureLogged ==
    report.event \in {"eww.modified.parseFailed", "ewp.modified.parseFailed"}
        => report.errors = 1 /\ ~report.rejected

\* Whether newSel is where set() must leave the selection of a model that held
\* oldList with oldSel selected and now holds newList.
FollowsKey(oldList, oldSel, newList, newSel) ==
    IF oldSel # NoSelection /\ \E i \in 1..Len(newList) : newList[i].path = oldList[oldSel + 1].path
    THEN newSel # NoSelection /\ newList[newSel + 1].path = oldList[oldSel + 1].path
    ELSE newSel = NoSelection

\* C9: after set() on the workspace model (subscribe, onFileModified) or on the
\* project model (setFallbackProjects with no workspace selected,
\* onFileModified), the selection is on the entity with the path of the entity
\* selected before if the new list has one, and is none otherwise; when
\* onFileModified replaces the selected entity, the selection is on its
\* re-parsed version.
C9_SelectionFollowsKey ==
    [][/\ report'.event \in {"eww.subscribe", "eww.modified.set"} =>
              FollowsKey(workspaces, workspaceSel, workspaces', workspaceSel')
       /\ (\/ report'.event = "ewp.modified.set"
           \/ (report'.event = "ewp.subscribe" /\ report'.sets = 1
                   /\ workspaceSel = NoSelection)) =>
              FollowsKey(projects, projectSel, projects', projectSel')
       /\ (/\ report'.event = "eww.modified.set"
           /\ workspaceSel # NoSelection
           /\ selected(workspaces, workspaceSel) = ewwHandler.old) =>
              /\ workspaceSel' # NoSelection
              /\ selected(workspaces', workspaceSel').path = ewwHandler.old.path
              /\ selected(workspaces', workspaceSel').content = ewwHandler.reloaded.content
       /\ (/\ report'.event = "ewp.modified.set"
           /\ projectSel # NoSelection
           /\ selected(projects, projectSel) = ewpHandler.old) =>
              /\ projectSel' # NoSelection
              /\ selected(projects', projectSel').path = ewpHandler.file
              /\ selected(projects', projectSel').content = disk[ewpHandler.file]]_vars

\* onFileModified has replaced the selected project, the first of two, by its
\* re-parsed version.
C9_Witness ==
    /\ report.event = "ewp.modified.set"
    /\ Len(projects) = 2
    /\ projectSel = 0
    /\ projects[1].path = PA /\ projects[1].content = Version2

\* C10: when the workspace selection is lost the project and configuration
\* selections become none; when the workspace selection goes to a workspace
\* that does not list the selected project they become none; and whenever the
\* project selection is none, or goes to a project without the selected
\* configuration, the configuration selection is none.
C10_CascadingReset ==
    [][/\ (workspaceSel # NoSelection /\ workspaceSel' = NoSelection) =>
              projectSel' = NoSelection /\ configSel' = NoSelection
       /\ (/\ workspaceSel' # NoSelection
           /\ stringify(<<selected(workspaces', workspaceSel')>>)
                  # stringify(<<selected(workspaces, workspaceSel)>>)
           /\ projectSel # NoSelection
           /\ selected(projects, projectSel).path \notin
                  WsProjects(selected(workspaces', workspaceSel').path,
                             selected(workspaces', workspaceSel').content)) =>
              projectSel' = NoSelection /\ configSel' = NoSelection
       /\ projectSel' = NoSelection => configSel' = NoSelection
       /\ (/\ projectSel' # NoSelection /\ configSel # NoSelection
           /\ configs[configSel + 1] \notin
                  Range(ProjectConfigs(selected(projects', projectSel').content))) =>
              configSel' = NoSelection]_vars

\* Workspace W2 was selected while a project of W1 only and one of its
\* configurations were selected.
C10_Witness ==
    /\ report.event = "selectWorkspace"
    /\ KeyAt(PathsOf(workspaces), workspaceSel) = W2
    /\ cleared = {"projectSel", "configSel"}
    /\ PathsOf(projects) = <<PB>>

\* C11: in each of the four selection models, whatever lists the watchers and
\* the tool manager set and whatever index a message of the view carries, the
\* selected index is absent or less than the length of the model's list.
InRange(list, sel) == sel = NoSelection \/ (0 <= sel /\ sel < Len(list))

C11_SelectedIndexInRange ==
    /\ InRange(workbenches, workbenchSel)
    /\ InRange(workspaces, workspaceSel)
    /\ InRange(projects, projectSel)
    /\ InRange(configs, configSel)

\* A message carried an index past the end of the two toolchains and the model
\* selected the last of them, the other three models holding a selection too.
C11_Witness ==
    /\ report.event = "selectWorkbench" /\ report.outOfRange
    /\ Len(workbenches) = 2 /\ workbenchSel = 1
    /\ workspaceSel # NoSelection /\ projectSel # NoSelection /\ configSel # NoSelection

\* C12: a watcher that cannot be initialized is lost alone: when
\* FileListWatcher.initialize has failed for the workspace files,
\* setupFileWatchers still goes on to initialize the project watcher and to
\* register its callbacks.
C12_ProjectWatcherSurvives ==
    report.event = "eww.initFailed" =>
        ENABLED (\E files \in Deliveries(EwpOrder, disk) : SetupEwp(files))

\* C13: on every delivery to the subscribe callback of the project watcher,
\* a delivered file that Project.isIgnoredFile holds for (excluded by the
\* setting, or shaped like a backup) is dropped before parsing: it is not given
\* to the parser, so no error is logged for it, and no entity for it is in the
\* list handed to setFallbackProjects or in the fallback projects afterwards.
C13_IgnoredNeverParsed ==
    report.event = "ewp.subscribe" =>
        LET delivery == lastDelivery["ewp"]
            ignored == {f \in Range(delivery.files) : isIgnoredFile(f, delivery.exclude)}
        IN /\ report.parsed \cap ignored = {}
           /\ report.parsed = Range(delivery.files) \ ignored
           /\ Range(report.handed) \cap ignored = {}
           /\ Range(PathsOf(fallbackProjects)) \cap ignored = {}
           /\ report.errors <= Cardinality(Range(delivery.files) \ ignored)

\* A delivery held an excluded project and a backup beside a project that is
\* kept: only the kept one was parsed and handed over.
C13_Witness ==
    /\ report.event = "ewp.subscribe"
    /\ Range(lastDelivery["ewp"].files) = {PA, PB, PBackup}
    /\ lastDelivery["ewp"].exclude = {PB}
    /\ report.parsed = {PA}
    /\ report.handed = <<PA>>
    /\ PathsOf(fallbackProjects) = <<PA>>

\* Whether the entities of paths stand in non-decreasing order of name under a
\* comparison.
SortedUnder(order, paths) ==
    \A i, j \in 1..Len(paths) : i < j => order[paths[i]][paths[j]] <= 0

HandedBySubscribe == report.event \in {"eww.subscribe", "ewp.subscribe"} /\ report.sets = 1

\* C14 as stated: every list a subscribe callback hands to a model
\* (workspace.set, setFallbackProjects) is in non-decreasing order of display
\* name under case-sensitive lexicographic comparison, whatever files are
\* delivered and in whatever order.
C14_SortedCaseSensitive ==
    HandedBySubscribe => SortedUnder(codeUnitOrder, report.handed)

\* C14: every list a subscribe callback hands to a model is in non-decreasing
\* order of display name under String.prototype.localeCompare (letters compare
\* regardless of case, and of two names that differ in case only the lower case
\* one comes first), whatever files are delivered and in whatever order; it is
\* the list the model then holds.
C14_SortedByLocaleCompare ==
    HandedBySubscribe =>
        /\ SortedUnder(nameOrder, report.handed)
        /\ report.event = "eww.subscribe" => PathsOf(workspaces) = report.handed
        /\ report.event = "ewp.subscribe" => PathsOf(fallbackProjects) = report.handed

\* The projects a and B were delivered B first and handed over a first.
C14_Witness ==
    /\ report.event = "ewp.subscribe" /\ report.sets = 1
    /\ SubSeq(lastDelivery["ewp"].files, Len(lastDelivery["ewp"].files) - 1,
              Len(lastDelivery["ewp"].files)) = <<PB, PA>>
    /\ report.handed = <<PA, PB>>

\* C15: when the projects-to-exclude setting changes and no file does,
\* refreshFiles() is called on the project watcher, the files now on disk are
\* delivered to subscribe again, and once the callback has run the fallback
\* projects are exactly the files the parser accepts that are neither excluded
\* by the new setting nor shaped like a backup, with what they hold now.
C15_SettingChangeRefreshes ==
    [][projectsToExclude' # projectsToExclude =>
        /\ disk' = disk
        /\ report'.event = "ewp.subscribe" /\ report'.reload = "files"
        /\ lastDelivery'["ewp"].files \in Deliveries(EwpOrder, disk)
        /\ lastDelivery'["ewp"].exclude = projectsToExclude'
        /\ Len(fallbackProjects') = Cardinality(Range(PathsOf(fallbackProjects')))
        /\ Range(PathsOf(fallbackProjects')) =
               {f \in EwpPaths : /\ disk[f] \in Parsable
                                 /\ f \notin projectsToExclude'
                                 /\ f \notin backupProjectFiles}
        /\ \A i \in 1..Len(fallbackProjects') :
               fallbackProjects'[i].content = disk[fallbackProjects'[i].path]]_vars

\* The setting came to exclude B.ewp: the files were delivered again, and of
\* a.ewp, B.ewp and the backup only a.ewp is a fallback project now.
C15_Witness ==
    /\ report.event = "ewp.subscribe" /\ report.reload = "files" /\ report.sets = 1
    /\ projectsToExclude = {PB}
    /\ Range(lastDelivery["ewp"].files) = {PA, PB, PBackup}
    /\ PathsOf(fallbackProjects) = <<PA>>

\* The steps in which a watcher calls a callback: subscribe, or onFileModified
\* as far as its first await or its return.
Callbacks(kind) ==
    {kind \o ".subscribe", kind \o ".modified", kind \o ".modified.untracked"}
        \cup (IF kind = "eww" THEN {"eww.modified.parseFailed"} ELSE {})

\* C16: once a watcher is disposed of, it calls neither its subscribe callback
\* nor its onFileModified callback again, whatever happens to its files
\* afterwards.
C16_NoCallbackAfterDisposal ==
    [][\A kind \in {"eww", "ewp"} :
          kind \in subscriptions.disposed => report'.event \notin Callbacks(kind)]_vars

\* After the disposal both a.ewp and W1.eww were deleted, and the models still
\* list them.
C16_Witness ==
    /\ subscriptions.disposed = {"eww", "ewp"}
    /\ report.event = "unwatched"
    /\ disk[W1] = Absent /\ disk[PA] = Absent
    /\ W1 \in Range(PathsOf(workspaces))
    /\ PA \in Range(PathsOf(fallbackProjects))

(***************************************************************************)
(* Claims about the functions of utils.ts that keep no state.              *)
(***************************************************************************)
Returned(fn) == input.fn = fn /\ output.done

\* C17: BackupUtils.isBackupFile returns true for a path whose basename is
\* "Backup (2) of Foo.ewp" or "Foo <JpnBackupWord> (3).ewp", and for the same
\* without the number, and false for "MyBackupFile.ewp"; the directory part of
\* the path has no say: the answer for a path is the answer for its basename.
C17_BackupNameDecides ==
    Returned("isBackupFile") =>
        /\ input.name \in {BackupNumbered, BackupPlain, JpnNumbered, JpnPlain} => output.value
        /\ input.name = MyBackupFile => ~output.value
        /\ output.value = isBackupFile(input.name)
        /\ \A folder \in Directories : output.value = isBackupFile(folder \o input.name)

\* isBackupFile said yes to the numbered backup in a plain directory, the
\* directory not being matched by either pattern.
C17_Witness ==
    /\ Returned("isBackupFile")
    /\ input.name = BackupNumbered /\ input.folder = Chars("/ws/")
    /\ output.value

Keys(list) == {getKey(list[i]) : i \in 1..Len(list)}

\* C18: ListUtils.mergeUnique returns a list in which no two items have the
\* same key and every key of an item of any list given occurs exactly once (and
\* no other key); every item returned is an item given; merging what it
\* returned with itself gives the same list again.
C18_MergeUniqueKeys ==
    Returned("mergeUnique") =>
        LET result == output.value
            given == flatten(input.lists)
        IN /\ \A i, j \in 1..Len(result) : getKey(result[i]) = getKey(result[j]) => i = j
           /\ \A key \in Keys(given) :
                  Cardinality({i \in 1..Len(result) : getKey(result[i]) = key}) = 1
           /\ Keys(result) = Keys(given)
           /\ Range(result) \subseteq Range(given)
           /\ mergeUnique(<<result, result>>) = result

\* Two lists held items of the same key: one item of that key was returned,
\* the one given last, in the place of the first.
C18_Witness ==
    /\ Returned("mergeUnique")
    /\ input.lists = << <<[key |-> "arm", tag |-> 1], [key |-> "riscv", tag |-> 1]>>,
                        <<[key |-> "arm", tag |-> 2]>> >>
    /\ output.value = <<[key |-> "arm", tag |-> 2], [key |-> "riscv", tag |-> 1]>>

\* The entities of after are those of before, position by position, but for
\* the places where before holds old.
SplicedAt(before, old, after) ==
    /\ Len(after) = Len(before)
    /\ \A i \in 1..Len(before) : before[i] # old => stringify(after)[i] = stringify(before)[i]

\* C19: the events of one watcher are handled one after the other: while an
\* onFileModified callback of the workspace watcher (of the project watcher) is
\* suspended between finding the old entity and calling set(), that watcher
\* calls neither subscribe nor onFileModified again, and no other step changes
\* the workspace list; so the list a callback hands to set() is the list the
\* model holds at that moment with nothing but the old entity replaced, never
\* an older list.
C19_OneEventAtATime ==
    [][/\ ewwHandler.stage # "idle" => report'.event \notin Callbacks("eww")
       /\ ewpHandler.stage # "idle" => report'.event \notin Callbacks("ewp")
       /\ (ewwHandler.stage # "idle" /\ report'.event # "eww.modified.set")
              => stringify(workspaces') = stringify(workspaces)
       /\ report'.event = "eww.modified.set"
              => SplicedAt(workspaces, ewwHandler.old, workspaces')
       /\ report'.event = "ewp.modified.set"
              => SplicedAt(projects, ewpHandler.old, projects')]_vars

\* A callback of each watcher is suspended at once: the two kinds do not wait
\* for each other.
C19_Witness ==
    /\ ewwHandler.stage = "equal" /\ ewpHandler.stage = "reload"
    /\ report.event = "ewp.modified"

\* after is before with the entity parsed anew, reloaded, where old was: as
\* long as before, old being in it, and position by position the same entity
\* but for that one.
ReplacedIn(before, old, reloaded, after) ==
    /\ Len(after) = Len(before)
    /\ \E i \in 1..Len(before) : before[i] = old
    /\ \A i \in 1..Len(before) :
           stringify(after)[i] = IF before[i] = old THEN reloaded ELSE stringify(before)[i]

\* C20: when a file is written and the entity parsed from it differs from the
\* one the model holds, the list onFileModified passes to set() is as long as
\* the model's list, holds the new entity where the old one was and, in every
\* other place, the entity that was there, in the same order.
C20_ReplacedInPlace ==
    [][/\ report'.event = "eww.modified.set" =>
              ReplacedIn(workspaces, ewwHandler.old,
                         [path |-> ewwHandler.reloaded.path,
                          content |-> ewwHandler.reloaded.content],
                         workspaces')
       /\ report'.event = "ewp.modified.set" =>
              ReplacedIn(projects, ewpHandler.old,
                         [path |-> ewpHandler.file, content |-> disk[ewpHandler.file]],
                         projects')]_vars

\* The steps in which a watcher calls onFileModified.
ModifiedEvents(kind) == Callbacks(kind) \ {kind \o ".subscribe"}

\* A step that parses nothing, calls no set(), asks for no reload and leaves
\* every model and every handler as it was.
Ignored ==
    /\ report'.parsed = {} /\ report'.sets = 0 /\ report'.reload = ""
    /\ ~report'.rejected
    /\ UNCHANGED <<modelVars, ewwHandler, ewpHandler>>

\* C21: when onFileModified is called for a file whose path is the path of no
\* entity of the model (the workspace model for a workspace file, the project
\* model for a project file), the event is ignored: the file is not parsed,
\* set() is not called, no reload is asked for, and the lists and selections of
\* the models are as before.
C21_UntrackedIgnored ==
    [][/\ \A f \in EwwPaths :
              (/\ report'.event \in ModifiedEvents("eww")
               /\ disk'[f] # disk[f]
               /\ f \notin Range(PathsOf(workspaces)))
              => (report'.event = "eww.modified.untracked" /\ Ignored)
       /\ \A f \in EwpPaths :
              (/\ report'.event \in ModifiedEvents("ewp")
               /\ disk'[f] # disk[f]
               /\ f \notin Range(PathsOf(projects)))
              => (report'.event = "ewp.modified.untracked" /\ Ignored)
       /\ report'.event \in {"eww.modified.untracked", "ewp.modified.untracked"} => Ignored]_vars

\* a.ewp, which the parser had rejected and the model does not hold, was
\* written with text the parser accepts; the model still does not hold it.
C21_Witness ==
    /\ report.event = "ewp.modified.untracked"
    /\ disk[PA] = Version2
    /\ PA \notin Range(PathsOf(projects))
    /\ PB \in Range(PathsOf(projects))

\* C22: when onFileModified is called for a workspace the model holds and the
\* workspace parsed anew is equal to the old one, set() is not called on the
\* workspace model, and reloadWorkspace() is called exactly when the old
\* workspace is the one the workspace model has selected at that moment.
C22_EqualWorkspaceReloads ==
    [][(/\ ewwHandler.stage = "equal"
        /\ ewwHandler'.stage = "idle"
        /\ WsProjects(ewwHandler.old.path, ewwHandler.old.content)
               = WsProjects(ewwHandler.reloaded.path, ewwHandler.reloaded.content))
       => /\ report'.event = "eww.modified.equal"
          /\ report'.sets = 0
          /\ UNCHANGED modelVars
          /\ report'.reload \in {"", "workspace"}
          /\ report'.reload = "workspace"
                 <=> (/\ workspaceSel # NoSelection
                      /\ workspaces[workspaceSel + 1].path = ewwHandler.old.path)]_vars

\* W1.eww was written with what it held, W1 being selected: the workspace was
\* reloaded.
C22_Witness ==
    /\ report.event = "eww.modified.equal" /\ report.reload = "workspace"
    /\ Len(workspaces) = 2
    /\ selected(workspaces, workspaceSel).path = W1

\* The same with W2 selected: nothing was reloaded.
C22_WitnessOther ==
    /\ report.event = "eww.modified.equal" /\ report.reload = ""
    /\ selected(workspaces, workspaceSel).path = W2

\* C23: while no workspace is selected and no handler is between an await and
\* its resumption, the project model lists the entities of the fallback
\* project list, whatever the project watcher has delivered or reported as
\* modified.
C23_FallbackListIsProjectList ==
    (/\ workspaceSel = NoSelection
     /\ ewwHandler.stage = "idle"
     /\ ewpHandler.stage = "idle")
    => stringify(projects) = stringify(fallbackProjects)

\* The steps of the project watcher's onFileModified: its start and, after the
\* await, its end.
EwpHandlerSteps ==
    ModifiedEvents("ewp")
        \cup {"ewp.modified.parseFailed", "ewp.modified.set", "ewp.modified.equal"}

\* C24: when onFileModified is called for a project the model holds, the
\* handler asks for reloadProject(oldProject) and parses nothing until that
\* has ended, whatever was written to the file; once it has ended the file is
\* parsed, and set() is called on the project model at most once, and only if
\* the project parsed differs from the old one. Without a call of set() the
\* models stay as they are.
C24_ReloadThenParse ==
    [][/\ (/\ report'.event \in EwpHandlerSteps
           /\ ewpHandler.stage = "idle"
           /\ \E f \in Range(PathsOf(projects)) : disk'[f] # disk[f] \/ ewpHandler'.file = f)
          => /\ report'.reload = "project"
             /\ report'.parsed = {} /\ report'.sets = 0
             /\ ewpHandler'.stage = "reload"
             /\ ewpHandler'.old \in Range(projects)
       /\ (report'.event \in EwpHandlerSteps /\ report'.parsed # {})
          => /\ ewpHandler.stage = "reload"
             /\ report'.parsed = {ewpHandler.file}
             /\ report'.reload = ""
       /\ report'.event \in EwpHandlerSteps
          => /\ report'.sets \in {0, 1}
             /\ report'.sets = 1
                   => /\ ewpHandler.stage = "reload"
                      /\ disk[ewpHandler.file] \in Parsable
                      /\ ProjectConfigs(disk[ewpHandler.file])
                            # ProjectConfigs(ewpHandler.old.content)
             /\ report'.sets = 0 => UNCHANGED modelVars]_vars

\* a.ewp was written with what it held: the project was reloaded, the file
\* parsed, and set() not called.
C24_Witness ==
    /\ report.event = "ewp.modified.equal"
    /\ report.parsed = {PA} /\ report.sets = 0
    /\ PA \in Range(PathsOf(projects))

\* a.ewp was written with other configurations: set() was called once.
C24_WitnessSet ==
    /\ report.event = "ewp.modified.set" /\ report.sets = 1
    /\ disk[PA] = Version2

(***************************************************************************)
(* The first listing of the backup guard.                                  *)
(***************************************************************************)
\* A call whose first listing was rejected: its promise is rejected with the
\* error of readdir, its task was never called, and it has deleted nothing.
FailedBeforeTask(r) ==
    /\ returned[r] = ReaddirError
    /\ taskPromise[r] = NotInvoked
    /\ created[r] = {} /\ deleted[r] = {} /\ pendingRm[r] = {}
    /\ cleanup[r] = "not_started"

C25_WitnessSameName ==
    /\ created[1] \cap originalBackupFiles[1] # {}
    /\ taskPromise[1] # NotInvoked

(***************************************************************************)
(* The flag that tells the settings view that toolchains are being loaded. *)
(***************************************************************************)
\* C26: the flag is up while a call of loadTools is between its start and its
\* end, and down when every call that was started has ended, fulfilled or
\* rejected, however the calls overlap.
C26_FlagFollowsLoads ==
    workbenchesLoading <=> InFlight # {}

(***************************************************************************)
(* Waiting for a process to exit.                                          *)
(***************************************************************************)
\* C27: waitForExit is fulfilled only if the first event the process emits is
\* 'exit' with code 0, and rejected only if it is 'exit' with another code or
\* with null, or 'error'; once the first event is emitted the call ends the one
\* way or the other, and a promise that is settled stays as it is whatever the
\* process emits afterwards.
C27_FirstEventDecides ==
    [][/\ exitPromise'.state = "fulfilled"
             <=> (/\ emitted' # <<>>
                  /\ emitted'[1] = [type |-> "exit", code |-> 0]
                  /\ exitPromise # exitPromise' \/ exitPromise.state = "fulfilled")
       /\ exitPromise'.state = "rejected"
             <=> (/\ emitted' # <<>>
                  /\ emitted'[1] # [type |-> "exit", code |-> 0]
                  /\ exitPromise # exitPromise' \/ exitPromise.state = "rejected")
       /\ exitPromise.state # "pending" => exitPromise' = exitPromise
       /\ exitCodePromise.state # "pending" => exitCodePromise' = exitCodePromise
       /\ (emitted # <<>> /\ exitPromise.state = "pending") => ENABLED WaitForExitResumes]_vars

\* The process exited with code 0 and then emitted 'error': the call stays
\* fulfilled.
C27_Witness ==
    /\ Len(emitted) >= 2
    /\ emitted[1] = [type |-> "exit", code |-> 0]
    /\ emitted[2].type = "error"
    /\ exitPromise.state = "fulfilled"

\* The process was ended by a signal: the code is null and the call is rejected.
C27_WitnessNull ==
    /\ emitted # <<>> /\ emitted[1] = [type |-> "exit", code |-> Null]
    /\ exitPromise.state = "rejected"

\* 'error' came first and 'exit' with code 0 after it: the call stays rejected.
C27_WitnessError ==
    /\ Len(emitted) >= 2
    /\ emitted[1].type = "error"
    /\ emitted[2] = [type |-> "exit", code |-> 0]
    /\ exitPromise.state = "rejected"

====
